---- MODULE Spec2Model ----
(***************************************************************************)
(* Verification model of the Sub-threshold training planner:               *)
(*   - the time/pace codec          (src/utils/calculations.ts)            *)
(*   - the weekly plan synthesizer  (src/utils/calculations.ts)            *)
(*   - the workout encoder          (src/unnamed/part_002, intervalsService)*)
(*                                                                         *)
(* Numbers.  The program computes with IEEE doubles; the model computes    *)
(* with exact integers in fixed units:                                     *)
(*   distances   metres            (1 km = 1000)                           *)
(*   paces/times milliseconds      (1 s  = 1000)                           *)
(* Math.round(x) is floor(x + 1/2); on a quotient a/b (b > 0) that is      *)
(* RoundDiv(a, b).  Strings are TLA+ strings; a character is a string of   *)
(* length one.                                                             *)
(***************************************************************************)
EXTENDS Integers, Sequences, FiniteSets, TLC

VARIABLES
    profile,        \* App state `profile` (UserProfile)
    correctionSec,  \* App value `weatherPaceDeltaSec` handed to generatePlan
    plan,           \* App state `plan` (WeeklyPlan | null): <<>> or <<plan>>
    enc,            \* one run of buildWorkoutPayload: session in, payload out
    clock,          \* one run of timeToSeconds / secondsToTime
    pace,           \* one run of parsePaceRangeToSpeedRaw
    calc,           \* one query of the pace model and its result
    weather,        \* App state `weather` (WeatherSnapshot | null): <<>> or <<w>>
    weatherStatus,  \* App state `weatherStatus`
    fetches,        \* the weather fetches under way, and how the last one ended
    icu,            \* one call of syncWorkoutToIcu / syncWorkoutsBulkToIcu
    week            \* App state `syncStatus`, `syncMessage` and one run of
                    \* handleSyncEntireWeekToIcu

vars == <<profile, correctionSec, plan, enc, clock, pace, calc, weather, weatherStatus, fetches, icu, week>>

----------------------------------------------------------------------------
(* Arithmetic helpers                                                      *)

Max(a, b) == IF a >= b THEN a ELSE b
Min(a, b) == IF a <= b THEN a ELSE b
Abs(a) == IF a >= 0 THEN a ELSE 0 - a

\* Math.round(a / b) for b > 0: nearest integer, halves toward +infinity.
RoundDiv(a, b) == (2 * a + b) \div (2 * b)

RECURSIVE SumSeq(_)
SumSeq(s) == IF s = <<>> THEN 0 ELSE Head(s) + SumSeq(Tail(s))

RECURSIVE MaxSeq(_)
MaxSeq(s) == IF Len(s) = 1 THEN s[1] ELSE Max(Head(s), MaxSeq(Tail(s)))

RECURSIVE MinSeq(_)
MinSeq(s) == IF Len(s) = 1 THEN s[1] ELSE Min(Head(s), MinSeq(Tail(s)))

----------------------------------------------------------------------------
(* String helpers (JavaScript String / Number / parseInt semantics)        *)

Ch(s, i) == SubSeq(s, i, i)

Digits == {"0", "1", "2", "3", "4", "5", "6", "7", "8", "9"}

IsDigit(c) == c \in Digits

DigitVal(c) ==
    CASE c = "0" -> 0 [] c = "1" -> 1 [] c = "2" -> 2 [] c = "3" -> 3
      [] c = "4" -> 4 [] c = "5" -> 5 [] c = "6" -> 6 [] c = "7" -> 7
      [] c = "8" -> 8 [] c = "9" -> 9

IsSpace(c) == c \in {" ", "\t", "\n"}

\* Not-a-Number: the only negative value a parse can return in this model.
NaN == 0 - 1

AllDigits(s) == Len(s) > 0 /\ \A i \in 1..Len(s) : IsDigit(Ch(s, i))

RECURSIVE DigitsValue(_)
DigitsValue(s) ==
    IF Len(s) = 0 THEN 0
    ELSE 10 * DigitsValue(SubSeq(s, 1, Len(s) - 1)) + DigitVal(Ch(s, Len(s)))

\* Length of the longest prefix of s made of digits.
RECURSIVE DigitPrefixLen(_)
DigitPrefixLen(s) ==
    IF Len(s) > 0 /\ IsDigit(Ch(s, 1)) THEN 1 + DigitPrefixLen(Tail(s)) ELSE 0

RECURSIVE TrimStart(_)
TrimStart(s) == IF Len(s) > 0 /\ IsSpace(Ch(s, 1)) THEN TrimStart(Tail(s)) ELSE s

RECURSIVE TrimEnd(_)
TrimEnd(s) ==
    IF Len(s) > 0 /\ IsSpace(Ch(s, Len(s)))
    THEN TrimEnd(SubSeq(s, 1, Len(s) - 1)) ELSE s

\* String.prototype.trim
Trim(s) == TrimEnd(TrimStart(s))

\* String.prototype.split(sep) for a one-character separator.
RECURSIVE SplitFrom(_, _, _)
SplitFrom(s, sep, cur) ==
    IF Len(s) = 0 THEN <<cur>>
    ELSE IF Ch(s, 1) = sep THEN <<cur>> \o SplitFrom(Tail(s), sep, "")
    ELSE SplitFrom(Tail(s), sep, cur \o Ch(s, 1))

Split(s, sep) == SplitFrom(s, sep, "")

\* parseInt(s): leading white space skipped, then the longest digit prefix;
\* NaN when there is none.  (Signs and radix prefixes are outside the input
\* alphabet of the model.)
ParseInt(s) ==
    LET Prefix(t, n) == IF n = 0 THEN NaN ELSE DigitsValue(SubSeq(t, 1, n))
        Trimmed(t) == Prefix(t, DigitPrefixLen(t))
    IN  Trimmed(TrimStart(s))

\* `x || 0` on a number.
OrZero(x) == IF x = NaN THEN 0 ELSE x

\* String.prototype.toLowerCase on one character.
LowerCh(c) ==
    CASE c = "A" -> "a" [] c = "B" -> "b" [] c = "C" -> "c" [] c = "D" -> "d"
      [] c = "E" -> "e" [] c = "F" -> "f" [] c = "G" -> "g" [] c = "H" -> "h"
      [] c = "I" -> "i" [] c = "J" -> "j" [] c = "K" -> "k" [] c = "L" -> "l"
      [] c = "M" -> "m" [] c = "N" -> "n" [] c = "O" -> "o" [] c = "P" -> "p"
      [] c = "Q" -> "q" [] c = "R" -> "r" [] c = "S" -> "s" [] c = "T" -> "t"
      [] c = "U" -> "u" [] c = "V" -> "v" [] c = "W" -> "w" [] c = "X" -> "x"
      [] c = "Y" -> "y" [] c = "Z" -> "z" [] OTHER -> c

RECURSIVE ToLower(_)
ToLower(s) == IF Len(s) = 0 THEN "" ELSE LowerCh(Ch(s, 1)) \o ToLower(Tail(s))

IsLowerLetter(c) ==
    c \in {"a", "b", "c", "d", "e", "f", "g", "h", "i", "j", "k", "l", "m",
           "n", "o", "p", "q", "r", "s", "t", "u", "v", "w", "x", "y", "z"}

\* Whether pattern p (lower case) occurs in s at position i, ignoring case.
MatchesAtCI(s, i, p) ==
    /\ i + Len(p) - 1 <= Len(s)
    /\ ToLower(SubSeq(s, i, i + Len(p) - 1)) = p

\* Whether p occurs in s at position i, case-sensitively.
MatchesAt(s, i, p) ==
    /\ i + Len(p) - 1 <= Len(s)
    /\ SubSeq(s, i, i + Len(p) - 1) = p

\* s.replace(/p/gi, ''): every occurrence removed, left to right, one pass.
RECURSIVE RemoveAllCI(_, _)
RemoveAllCI(s, p) ==
    IF Len(s) = 0 THEN ""
    ELSE IF MatchesAtCI(s, 1, p) THEN RemoveAllCI(SubSeq(s, Len(p) + 1, Len(s)), p)
    ELSE Ch(s, 1) \o RemoveAllCI(Tail(s), p)

\* s.replace(p, '') with a string pattern: the first occurrence only.
RECURSIVE RemoveFirst(_, _)
RemoveFirst(s, p) ==
    IF Len(s) = 0 THEN ""
    ELSE IF MatchesAt(s, 1, p) THEN SubSeq(s, Len(p) + 1, Len(s))
    ELSE Ch(s, 1) \o RemoveFirst(Tail(s), p)

\* parts.map(p => p.trim()).filter(Boolean)
RECURSIVE TrimAndDropEmpty(_)
TrimAndDropEmpty(parts) ==
    IF parts = <<>> THEN <<>>
    ELSE LET Kept(p, rest) == IF p = "" THEN rest ELSE <<p>> \o rest
         IN  Kept(Trim(Head(parts)), TrimAndDropEmpty(Tail(parts)))

\* Number(s) for a text without sign, decimal point or exponent: white
\* space trimmed, "" is 0, a run of digits its value, anything else NaN.
NumberOf(s) ==
    LET Trimmed(t) == IF t = "" THEN 0 ELSE IF AllDigits(t) THEN DigitsValue(t) ELSE NaN
    IN  Trimmed(Trim(s))

\* values.filter(v => v > 0)
RECURSIVE KeepPositive(_)
KeepPositive(vs) ==
    IF vs = <<>> THEN <<>>
    ELSE IF Head(vs) > 0 THEN <<Head(vs)>> \o KeepPositive(Tail(vs))
    ELSE KeepPositive(Tail(vs))

----------------------------------------------------------------------------
(* Time/pace codec: src/utils/calculations.ts                              *)

\* `parseInt(part) || 0` of timeToSeconds: parseInt takes one sign before
\* the digits.
ParseIntOrZero(part) ==
    LET Unsigned(t) ==
            IF DigitPrefixLen(t) = 0 THEN 0 ELSE DigitsValue(SubSeq(t, 1, DigitPrefixLen(t)))
        Signed(t) ==
            IF Len(t) > 0 /\ Ch(t, 1) = "-" THEN 0 - Unsigned(Tail(t))
            ELSE IF Len(t) > 0 /\ Ch(t, 1) = "+" THEN Unsigned(Tail(t))
            ELSE Unsigned(t)
    IN  Signed(TrimStart(part))

\* timeToSeconds(time): whole seconds.
timeToSeconds(time) ==
    LET Total(parts) ==
            IF Len(parts) = 3
            THEN ParseIntOrZero(parts[1]) * 3600 + ParseIntOrZero(parts[2]) * 60
                    + ParseIntOrZero(parts[3])
            ELSE IF Len(parts) = 2
            THEN ParseIntOrZero(parts[1]) * 60 + ParseIntOrZero(parts[2])
            ELSE ParseIntOrZero(parts[1])
    IN  IF time = "" THEN 0 ELSE Total(Split(time, ":"))

\* The three fields secondsToTime computes, from a duration in milliseconds.
ClockH(ms) == ms \div 3600000
ClockM(ms) == (ms % 3600000) \div 60000
ClockS(ms) == RoundDiv(ms % 60000, 1000)

\* A variant that never pads the seconds field.
secondsToTimeNoPad(ms) ==
    IF ms <= 0 THEN "0:00"
    ELSE LET h == ClockH(ms)
             m == ClockM(ms)
             s == ClockS(ms)
             mStr == IF m < 10 /\ h > 0 THEN "0" \o ToString(m) ELSE ToString(m)
             sStr == ToString(s)
         IN  IF h > 0 THEN ToString(h) \o ":" \o mStr \o ":" \o sStr
             ELSE mStr \o ":" \o sStr

\* secondsToTime(seconds), the argument given in milliseconds.
secondsToTime(ms) ==
    IF ms <= 0 THEN "0:00"
    ELSE LET h == ClockH(ms)
             m == ClockM(ms)
             s == ClockS(ms)
             mStr == IF m < 10 /\ h > 0 THEN "0" \o ToString(m) ELSE ToString(m)
             sStr == IF s < 10 THEN "0" \o ToString(s) ELSE ToString(s)
         IN  IF h > 0 THEN ToString(h) \o ":" \o mStr \o ":" \o sStr
             ELSE mStr \o ":" \o sStr

----------------------------------------------------------------------------
(* Workout encoder, pace texts: src/unnamed/part_002 (intervalsService)    *)

\* normalizePaceRange(pace)
normalizePaceRange(paceText) ==
    LET Joined(parts) ==
            IF Len(parts) = 0 THEN ""
            ELSE IF Len(parts) = 1 THEN parts[1] \o "/km"
            ELSE parts[1] \o "-" \o parts[2] \o "/km"
        Cleaned(cleaned) ==
            IF cleaned = "" THEN "" ELSE Joined(TrimAndDropEmpty(Split(cleaned, "-")))
    IN  Cleaned(Trim(RemoveAllCI(RemoveAllCI(paceText, "/km"), "pace")))

\* toSec(token) inside parsePaceRangeToSpeedRaw (parseTimeTokenToSec in the
\* earlier revision): seconds of "M:S" / "H:M:S", else 0.
paceTokenToSec(token) ==
    LET Seconds(segments) ==
            IF \E i \in 1..Len(segments) : segments[i] = NaN THEN 0
            ELSE IF Len(segments) = 2 THEN segments[1] * 60 + segments[2]
            ELSE IF Len(segments) = 3
            THEN segments[1] * 3600 + segments[2] * 60 + segments[3]
            ELSE 0
        Numbers(texts) == Seconds([i \in 1..Len(texts) |-> NumberOf(texts[i])])
    IN  Numbers(Split(token, ":"))

\* parts.map(toSec)
RECURSIVE MapPaceTokenToSec(_)
MapPaceTokenToSec(parts) ==
    IF parts = <<>> THEN <<>>
    ELSE <<paceTokenToSec(Head(parts))>> \o MapPaceTokenToSec(Tail(parts))

\* The positive second values parsePaceRangeToSpeedRaw derives from a text;
\* <<>> where it returns null before looking at them.
paceValues(paceText) ==
    LET Values(text) ==
            IF text = "" THEN <<>>
            ELSE KeepPositive(MapPaceTokenToSec(
                     TrimAndDropEmpty(Split(RemoveFirst(text, "/km"), "-"))))
    IN  Values(normalizePaceRange(paceText))

\* Math.round((1000 / sec) * 1000): metres per second, scaled by 1000.
speedRaw(sec) == RoundDiv(1000000, sec)

\* A variant that takes the bounds in the order the text gives them.
parsePaceRangeToSpeedRawTextOrder(paceText) ==
    LET Range(values) ==
            IF Len(values) = 0 THEN <<>>
            ELSE <<[low |-> speedRaw(values[1]), high |-> speedRaw(values[Len(values)])]>>
    IN  Range(paceValues(paceText))

\* parsePaceRangeToSpeedRaw(pace): <<>> for null, else <<[low, high]>> with
\* low from the slowest and high from the fastest value.
parsePaceRangeToSpeedRaw(paceText) ==
    LET Range(values) ==
            IF Len(values) = 0 THEN <<>>
            ELSE <<[low |-> speedRaw(MaxSeq(values)), high |-> speedRaw(MinSeq(values))]>>
    IN  Range(paceValues(paceText))

\* parsePaceRangeToSpeedRaw of the earlier encoder revision (part_004):
\* the first two positive tokens, min/max taken on the speeds.
parsePaceRangeToSpeedRawV1(paceText) ==
    LET Range(a, b) == <<[low |-> Min(a, b), high |-> Max(a, b)]>>
        Seconds(seconds) ==
            IF Len(seconds) = 0 THEN <<>>
            ELSE Range(speedRaw(seconds[1]),
                       speedRaw(IF Len(seconds) = 1 THEN seconds[1] ELSE seconds[2]))
        Pieces(pieces) ==
            IF Len(pieces) = 0 THEN <<>> ELSE Seconds(KeepPositive(MapPaceTokenToSec(pieces)))
        Text(text) == IF text = "" THEN <<>> ELSE Pieces(TrimAndDropEmpty(Split(text, "-")))
    IN  Text(Trim(RemoveAllCI(RemoveAllCI(paceText, "/km"), "pace")))

----------------------------------------------------------------------------
(* Workout encoder, free-text steps: src/unnamed/part_002                  *)
(*                                                                         *)
(* Optional numeric fields (targetHrLow, targetPowerLow, durationSec,      *)
(* count, ...) are read by the encoder by truthiness or through            *)
(* `Number(x) || d` only, so 0 stands for both `undefined` and 0.  An      *)
(* absent text (warmup, cooldown, rest, pace, targetZone) is "".           *)

PLACEHOLDER_STEP_VALUES == {"", "0", "n/a", "na", "direct start", "walk off", "none"}

\* A variant that compares the raw text, without trimming and lower-casing.
isPlaceholderStepRaw(raw) == raw \in PLACEHOLDER_STEP_VALUES

\* isPlaceholderStep(raw)
isPlaceholderStep(raw) == ToLower(Trim(raw)) \in PLACEHOLDER_STEP_VALUES

\* Last index of the run of digits that starts at i.
RECURSIVE DigitRunEnd(_, _)
DigitRunEnd(s, i) ==
    IF i + 1 <= Len(s) /\ IsDigit(Ch(s, i + 1)) THEN DigitRunEnd(s, i + 1) ELSE i

\* First index at or after i that holds no white space (\s*).
RECURSIVE SkipSpaces(_, _)
SkipSpaces(s, i) ==
    IF i <= Len(s) /\ IsSpace(Ch(s, i)) THEN SkipSpaces(s, i + 1) ELSE i

\* The unit literal at j, ignoring case; with the look-ahead (?![a-z]) when
\* noLetterAfter.
UnitAt(s, j, unit, noLetterAfter) ==
    /\ MatchesAtCI(s, j, unit)
    /\ noLetterAfter =>
          ~(j + Len(unit) <= Len(s) /\ IsLowerLetter(LowerCh(Ch(s, j + Len(unit)))))

\* /(\d+(?:\.\d+)?)\s*unit/i tried at start position i: the last index of
\* the captured number, 0 when it does not match there.
NumUnitMatchEnd(s, i, unit, noLetterAfter) ==
    LET Ends(e0, e1) ==
            IF e1 > 0 /\ UnitAt(s, SkipSpaces(s, e1 + 1), unit, noLetterAfter) THEN e1
            ELSE IF UnitAt(s, SkipSpaces(s, e0 + 1), unit, noLetterAfter) THEN e0
            ELSE 0
        Whole(e0) ==
            Ends(e0, IF e0 + 2 <= Len(s) /\ Ch(s, e0 + 1) = "." /\ IsDigit(Ch(s, e0 + 2))
                     THEN DigitRunEnd(s, e0 + 2) ELSE 0)
    IN  IF ~IsDigit(Ch(s, i)) THEN 0 ELSE Whole(DigitRunEnd(s, i))

\* The leftmost start position from i on where the pattern matches, 0 when
\* there is none.
RECURSIVE NumUnitMatchStart(_, _, _, _)
NumUnitMatchStart(s, i, unit, noLetterAfter) ==
    IF i > Len(s) THEN 0
    ELSE IF NumUnitMatchEnd(s, i, unit, noLetterAfter) > 0 THEN i
    ELSE NumUnitMatchStart(s, i + 1, unit, noLetterAfter)

\* s.match(/(\d+(?:\.\d+)?)\s*unit/i)[1]: the number captured by the
\* leftmost match, "" when there is no match.
MatchNumUnit(s, unit, noLetterAfter) ==
    LET Captured(i) ==
            IF i = 0 THEN "" ELSE SubSeq(s, i, NumUnitMatchEnd(s, i, unit, noLetterAfter))
    IN  Captured(NumUnitMatchStart(s, 1, unit, noLetterAfter))

\* /^(\d+(?:\.\d+)?)$/
IsNumericOnly(s) ==
    LET Fields(p) == Len(p) = 2 /\ AllDigits(p[1]) /\ AllDigits(p[2])
    IN  AllDigits(s) \/ Fields(Split(s, "."))

\* Number(t) * 1000 for a captured decimal t with at most three decimals.
DecimalMilli(t) ==
    LET Fields(p) ==
            IF Len(p) = 1 THEN DigitsValue(p[1]) * 1000
            ELSE DigitsValue(p[1]) * 1000 + DigitsValue(SubSeq(p[2] \o "000", 1, 3))
    IN  Fields(Split(t, "."))

\* `${x}` for a number given in thousandths (x = n / 1000).
RECURSIVE StripTrailingZeros(_)
StripTrailingZeros(s) ==
    IF Len(s) > 0 /\ Ch(s, Len(s)) = "0"
    THEN StripTrailingZeros(SubSeq(s, 1, Len(s) - 1)) ELSE s

Pad3(n) == IF n < 10 THEN "00" \o ToString(n)
           ELSE IF n < 100 THEN "0" \o ToString(n) ELSE ToString(n)

FormatThousandths(n) ==
    IF n % 1000 = 0 THEN ToString(n \div 1000)
    ELSE ToString(n \div 1000) \o "." \o StripTrailingZeros(Pad3(n % 1000))

\* kmTokenFromMeters(meters)
kmTokenFromMeters(meters) == FormatThousandths(Max(0, meters)) \o "km"

\* The first alternative that is not "".
FirstNonEmpty(a, b, c, d) ==
    IF a # "" THEN a ELSE IF b # "" THEN b ELSE IF c # "" THEN c ELSE d

\* `${match[1]}${suffix}` when the pattern matches, else "".
Captioned(captured, suffix) == IF captured = "" THEN "" ELSE captured \o suffix

\* normalizeEasyStep(raw)
normalizeEasyStep(raw) ==
    LET Step(value) ==
            IF value = "" THEN "10m easy run"
            ELSE FirstNonEmpty(Captioned(MatchNumUnit(value, "km", FALSE), "km easy run"),
                               Captioned(MatchNumUnit(value, "s", FALSE), "s easy run"),
                               Captioned(MatchNumUnit(value, "m", TRUE), "m easy run"),
                               value \o " easy run")
    IN  Step(Trim(raw))

\* normalizeRecoveryStep(raw)
normalizeRecoveryStep(raw) ==
    LET Step(value) ==
            IF value = "" \/ value = "0" THEN ""
            ELSE FirstNonEmpty(Captioned(MatchNumUnit(value, "km", FALSE), "km recovery run"),
                               Captioned(MatchNumUnit(value, "s", FALSE), "s recovery"),
                               Captioned(MatchNumUnit(value, "m", TRUE), "m recovery"),
                               IF IsNumericOnly(value) THEN value \o "s recovery"
                               ELSE value \o " recovery")
    IN  Step(Trim(raw))

\* "M:SS" at position i ([0-9]+:[0-9]{2}): the last index, 0 when absent.
ClockTokenEnd(s, i) ==
    LET Token(e) ==
            IF /\ e + 3 <= Len(s)
               /\ Ch(s, e + 1) = ":"
               /\ IsDigit(Ch(s, e + 2))
               /\ IsDigit(Ch(s, e + 3))
            THEN e + 3 ELSE 0
    IN  IF ~(i <= Len(s) /\ IsDigit(Ch(s, i))) THEN 0 ELSE Token(DigitRunEnd(s, i))

\* /Target Pace:\s*([0-9]+:[0-9]{2})(?:-([0-9]+:[0-9]{2}))?\/km/i tried at i:
\* <<low, high>> of the match ("" for an absent high), <<>> for no match.
EasyPaceMatchAt(s, i) ==
    LET Both(j, e1, e2) ==
            IF e2 > 0 /\ MatchesAtCI(s, e2 + 1, "/km")
            THEN <<SubSeq(s, j, e1), SubSeq(s, e1 + 2, e2)>>
            ELSE IF MatchesAtCI(s, e1 + 1, "/km") THEN <<SubSeq(s, j, e1), "">>
            ELSE <<>>
        Low(j, e1) ==
            IF e1 = 0 THEN <<>>
            ELSE Both(j, e1, IF e1 + 1 <= Len(s) /\ Ch(s, e1 + 1) = "-"
                             THEN ClockTokenEnd(s, e1 + 2) ELSE 0)
        From(j) == Low(j, ClockTokenEnd(s, j))
    IN  IF ~MatchesAtCI(s, i, "target pace:") THEN <<>> ELSE From(SkipSpaces(s, i + 12))

\* The leftmost match from position i on, <<>> when there is none.
RECURSIVE EasyPaceMatchFrom(_, _)
EasyPaceMatchFrom(s, i) ==
    IF i > Len(s) THEN <<>>
    ELSE LET OrLater(m) == IF m # <<>> THEN m ELSE EasyPaceMatchFrom(s, i + 1)
         IN  OrLater(EasyPaceMatchAt(s, i))

\* extractEasyPaceFromDescription(description)
extractEasyPaceFromDescription(description) ==
    LET Found(m) ==
            IF m = <<>> THEN ""
            ELSE IF m[2] # "" THEN m[1] \o "-" \o m[2] \o "/km" ELSE m[1] \o "/km"
    IN  Found(EasyPaceMatchFrom(Trim(description), 1))

\* sanitizeFilename(name)
FilenameChar(c) == IsDigit(c) \/ IsLowerLetter(LowerCh(c)) \/ c = "-" \/ c = "_"

RECURSIVE UnderscoreRuns(_)
UnderscoreRuns(s) ==
    IF Len(s) = 0 THEN ""
    ELSE LET Joined(c, rest) ==
                 IF c = "_" /\ Len(rest) > 0 /\ Ch(rest, 1) = "_" THEN rest ELSE c \o rest
         IN  Joined(IF FilenameChar(Ch(s, 1)) THEN Ch(s, 1) ELSE "_", UnderscoreRuns(Tail(s)))

sanitizeFilename(name) ==
    LET DropTail(a) == IF Len(a) > 0 /\ Ch(a, Len(a)) = "_" THEN SubSeq(a, 1, Len(a) - 1) ELSE a
        DropHead(a) == IF Len(a) > 0 /\ Ch(a, 1) = "_" THEN Tail(a) ELSE a
        OrWorkout(b) == IF b = "" THEN "workout" ELSE b
    IN  OrWorkout(DropTail(DropHead(UnderscoreRuns(IF name = "" THEN "workout" ELSE name))))

\* parseDurationToFit(raw): <<>> for null, else <<[durationType, durationValue]>>
\* (distance in centimetres, time in milliseconds).
parseDurationToFit(raw) ==
    LET Duration(type, milli, factor) ==
            IF milli > 0 THEN <<[durationType |-> type, durationValue |-> milli * factor]>>
            ELSE <<>>
        Captured(type, t, factor) ==
            IF t = "" THEN <<>> ELSE Duration(type, DecimalMilli(t), factor)
        FirstFound(a, b, c) == IF a # <<>> THEN a ELSE IF b # <<>> THEN b ELSE c
        Value(value) ==
            IF isPlaceholderStep(value) THEN <<>>
            ELSE FirstFound(Captured("distance", MatchNumUnit(value, "km", FALSE), 100),
                            Captured("time", MatchNumUnit(value, "s", FALSE), 1),
                            Captured("time", MatchNumUnit(value, "m", TRUE), 60))
    IN  Value(ToLower(Trim(raw)))

----------------------------------------------------------------------------
(* Workout encoder, FIT steps: src/unnamed/part_002                        *)

\* import.meta.env.VITE_ICU_GARMIN_SAFE_INTENSITY, unset: the default build.
ICU_GARMIN_SAFE_INTENSITY == TRUE

\* safeIntensity inside buildFitStep ("undefined" for undefined).
safeIntensity(intensity) ==
    IF ~ICU_GARMIN_SAFE_INTENSITY THEN intensity
    ELSE IF intensity \in {"interval", "active"} THEN "undefined"
    ELSE IF intensity = "recovery" THEN "rest"
    ELSE intensity

FitStep(name, duration, targetType, low, high, intensity) ==
    [wktStepName |-> name,
     durationType |-> duration.durationType,
     durationValue |-> duration.durationValue,
     targetType |-> targetType,
     targetValue |-> 0,
     customTargetValueLow |-> low,
     customTargetValueHigh |-> high,
     intensity |-> intensity]

\* The target fields buildFitStep gives a step: <<targetType, low, high>>.
speedTarget(speed) ==
    IF speed = <<>> THEN <<"open", 0, 0>> ELSE <<"speed", speed[1].low, speed[1].high>>

\* A variant that looks at the heart-rate range before the power range.
buildFitStepHrFirst(name, duration, intensity, paceRange, heartRateRange, powerRange) ==
    LET Step(target) ==
            FitStep(name, duration, target[1], target[2], target[3], safeIntensity(intensity))
    IN  Step(IF heartRateRange # <<>>
             THEN <<"heartRate", heartRateRange[1].low, heartRateRange[1].high>>
             ELSE IF powerRange # <<>>
             THEN <<"power", powerRange[1].low, powerRange[1].high>>
             ELSE speedTarget(parsePaceRangeToSpeedRaw(paceRange)))

\* buildFitStep(name, duration, intensity, paceRange, heartRateRange, powerRange);
\* an absent range is <<>>, an absent paceRange "".
buildFitStep(name, duration, intensity, paceRange, heartRateRange, powerRange) ==
    LET Step(target) ==
            FitStep(name, duration, target[1], target[2], target[3], safeIntensity(intensity))
    IN  Step(IF powerRange # <<>>
             THEN <<"power", powerRange[1].low, powerRange[1].high>>
             ELSE IF heartRateRange # <<>>
             THEN <<"heartRate", heartRateRange[1].low, heartRateRange[1].high>>
             ELSE speedTarget(parsePaceRangeToSpeedRaw(paceRange)))

\* hrRange of buildFitWorkoutSteps.
sessionHrRange(session) ==
    IF session.useHeartRateTarget /\ session.targetHrLow # 0 /\ session.targetHrHigh # 0
    THEN <<[low |-> session.targetHrLow, high |-> session.targetHrHigh]>>
    ELSE <<>>

\* powerRange of one interval in buildFitWorkoutSteps.
intervalPowerRange(interval) ==
    IF interval.targetPowerLow # 0 /\ interval.targetPowerHigh # 0
    THEN <<[low |-> interval.targetPowerLow, high |-> interval.targetPowerHigh]>>
    ELSE <<>>

isBikeSession(session) == session.sport = "bike"

\* Math.max(1, Number(interval.count) || 1), for integer counts.
intervalReps(interval) == Max(1, IF interval.count = 0 THEN 1 ELSE interval.count)

\* The time fallback Math.max(60000, Math.round((Number(session.duration) || 1) * 60000)).
sessionTimeDuration(session) ==
    [durationType |-> "time",
     durationValue |-> Max(60000, (IF session.duration = 0 THEN 1 ELSE session.duration) * 60000)]

\* repDuration of one interval.
repDuration(session, interval) ==
    IF interval.durationSec > 0
    THEN [durationType |-> "time", durationValue |-> Max(1000, interval.durationSec * 1000)]
    ELSE IF Max(0, interval.distance) > 0
    THEN [durationType |-> "distance", durationValue |-> Max(0, interval.distance) * 100]
    ELSE sessionTimeDuration(session)

\* A variant whose repeat step always points at the head of the step list.
RepeatStepFromZero(reps, blockStart) ==
    [wktStepName |-> "Repeat " \o ToString(reps) \o "x",
     durationType |-> "repeatUntilStepsCmplt",
     durationValue |-> 0,
     targetType |-> "open",
     targetValue |-> reps,
     customTargetValueLow |-> 0,
     customTargetValueHigh |-> 0,
     intensity |-> IF ICU_GARMIN_SAFE_INTENSITY THEN "undefined" ELSE "active"]

\* The repeat pseudo-step pushed after a block with reps > 1.
RepeatStep(reps, blockStart) ==
    [wktStepName |-> "Repeat " \o ToString(reps) \o "x",
     durationType |-> "repeatUntilStepsCmplt",
     durationValue |-> blockStart,
     targetType |-> "open",
     targetValue |-> reps,
     customTargetValueLow |-> 0,
     customTargetValueHigh |-> 0,
     intensity |-> IF ICU_GARMIN_SAFE_INTENSITY THEN "undefined" ELSE "active"]

\* The work step of one interval.
workStep(session, interval) ==
    buildFitStep(IF isBikeSession(session)
                 THEN "Run " \o (IF interval.targetZone = "" THEN "Z3" ELSE interval.targetZone)
                 ELSE "Run",
                 repDuration(session, interval),
                 IF session.type = "Threshold" THEN "interval" ELSE "active",
                 interval.pace, sessionHrRange(session), intervalPowerRange(interval))

\* The recovery step of one interval, pushed when its rest parses.
recoverySteps(session, recovery) ==
    IF recovery # <<>>
    THEN <<buildFitStep(IF isBikeSession(session) THEN "Recovery Z2" ELSE "Recovery",
                        recovery[1], "recovery", "", sessionHrRange(session), <<>>)>>
    ELSE <<>>

\* A variant of the loop body that closes every interval with a repeat step.
intervalStepsAlwaysRepeat(session, interval, steps) ==
    steps \o <<workStep(session, interval)>>
          \o recoverySteps(session, parseDurationToFit(interval.rest))
          \o <<RepeatStep(intervalReps(interval), Len(steps))>>

\* One pass of the loop `for (const interval of session.intervals)`: the step
\* list after the interval's steps are pushed (step indices count from 0, so
\* blockStart is the length of the list before the push).
intervalSteps(session, interval, steps) ==
    steps \o <<workStep(session, interval)>>
          \o recoverySteps(session, parseDurationToFit(interval.rest))
          \o (IF intervalReps(interval) > 1
              THEN <<RepeatStep(intervalReps(interval), Len(steps))>> ELSE <<>>)

RECURSIVE intervalLoop(_, _, _)
intervalLoop(session, intervals, steps) ==
    IF intervals = <<>> THEN steps
    ELSE intervalLoop(session, Tail(intervals), intervalSteps(session, Head(intervals), steps))

\* The single main step of a session without intervals.
continuousStep(session) ==
    buildFitStep(IF isBikeSession(session) THEN "Ride Z2" ELSE "Run",
                 IF isBikeSession(session) \/ Max(0, session.distance) * 100 <= 0
                 THEN sessionTimeDuration(session)
                 ELSE [durationType |-> "distance",
                       durationValue |-> Max(0, session.distance) * 100],
                 "active", extractEasyPaceFromDescription(session.description),
                 sessionHrRange(session), <<>>)

\* The warmup or cooldown step, pushed when the text parses.
bufferSteps(session, duration, name, intensity) ==
    IF duration # <<>>
    THEN <<buildFitStep(IF isBikeSession(session) THEN name \o " Z2" ELSE name,
                        duration[1], intensity, "", sessionHrRange(session), <<>>)>>
    ELSE <<>>

\* The step list after the main set, given the list after the warmup.
mainSteps(session, steps) ==
    IF Len(session.intervals) > 0 THEN intervalLoop(session, session.intervals, steps)
    ELSE steps \o <<continuousStep(session)>>

\* buildFitWorkoutSteps(session)
buildFitWorkoutSteps(session) ==
    mainSteps(session,
              bufferSteps(session, parseDurationToFit(session.warmup), "Warm Up", "warmup"))
        \o bufferSteps(session, parseDurationToFit(session.cooldown), "Cool Down", "cooldown")

----------------------------------------------------------------------------
(* Workout encoder, title, text and payload: src/unnamed/part_002          *)

\* `${Math.round((dist / 1000) * 10) / 10}km` or `${Math.round(dist)}m`, dist in metres.
distLabel(dist) ==
    IF dist >= 1000 THEN FormatThousandths(RoundDiv(dist, 100) * 100) \o "km"
    ELSE ToString(dist) \o "m"

\* A variant that trusts the stored title.
getDynamicTitleStored(session) == session.title

\* `SubT ${reps}x...` for the first interval.
thresholdTitle(first) ==
    IF first.durationSec > 0
    THEN "SubT " \o ToString(intervalReps(first)) \o "x"
            \o ToString(Max(1, RoundDiv(first.durationSec, 60))) \o ":00"
    ELSE "SubT " \o ToString(intervalReps(first)) \o "x" \o distLabel(Max(0, first.distance))

\* getDynamicTitle(session)
getDynamicTitle(session) ==
    IF session.type # "Threshold" \/ Len(session.intervals) = 0 THEN session.title
    ELSE thresholdTitle(session.intervals[1])

\* getIcuType(_type, sport)
getIcuType(sport) == IF sport = "bike" THEN "Ride" ELSE "Run"

\* hrToken of formatIcuWorkoutText.
hrToken(session) ==
    IF session.useHeartRateTarget
    THEN IF session.targetHrLow # 0 /\ session.targetHrHigh # 0
         THEN "Z2 HR (" \o ToString(session.targetHrLow) \o "-"
                 \o ToString(session.targetHrHigh) \o " bpm)"
         ELSE "Z2 HR"
    ELSE ""

\* `${durationSec > 0 ? `${Math.round(durationSec / 60)}m` : distStr}`
repLength(int) ==
    IF int.durationSec > 0 THEN ToString(RoundDiv(int.durationSec, 60)) \o "m"
    ELSE IF int.distance > 0 THEN kmTokenFromMeters(int.distance)
    ELSE ""

\* `${pace ? ` @ ${pace}` : ''}`
paceSuffix(paceStr) == IF paceStr # "" THEN " @ " \o paceStr ELSE ""

\* runStep of one interval in formatIcuWorkoutText.
runStep(session, int) ==
    IF isBikeSession(session)
    THEN Trim((IF int.distance > 0 THEN kmTokenFromMeters(int.distance) ELSE "") \o " "
              \o (IF int.targetPowerLow # 0 /\ int.targetPowerHigh # 0
                  THEN "@ " \o ToString(int.targetPowerLow) \o "-"
                          \o ToString(int.targetPowerHigh) \o "w"
                  ELSE "@ " \o (IF int.targetZone = "" THEN "Z2" ELSE int.targetZone))
              \o " ride")
    ELSE IF session.useHeartRateTarget
    THEN Trim(repLength(int) \o " @ " \o hrToken(session) \o " run")
    ELSE Trim(repLength(int) \o paceSuffix(normalizePaceRange(int.pace)) \o " run")

\* The chunk pushed for a run step and its recovery text.
repChunk(reps, run, recovery) ==
    IF reps > 1
    THEN IF recovery # ""
         THEN ToString(reps) \o "x[" \o run \o " / " \o recovery \o "]"
         ELSE ToString(reps) \o "x[" \o run \o "]"
    ELSE IF recovery # "" THEN run \o "; " \o recovery
    ELSE run

\* The chunk pushed for one interval.
intervalChunk(session, int) ==
    repChunk(intervalReps(int), runStep(session, int), normalizeRecoveryStep(int.rest))

\* The main chunk of a session without intervals.
continuousChunk(session) ==
    IF isBikeSession(session)
    THEN ToString(session.duration) \o "m @ Z2 ride"
    ELSE IF session.useHeartRateTarget
    THEN FormatThousandths(session.distance) \o "km @ " \o hrToken(session) \o " run"
    ELSE FormatThousandths(session.distance) \o "km"
            \o paceSuffix(extractEasyPaceFromDescription(session.description)) \o " run"

\* The "Wu" or "Cd" chunk, pushed unless the text is a placeholder or empty.
bufferChunks(tag, text) ==
    IF ~isPlaceholderStep(text) /\ text # "" THEN <<tag \o " " \o normalizeEasyStep(text)>>
    ELSE <<>>

RECURSIVE intervalChunks(_, _)
intervalChunks(session, intervals) ==
    IF intervals = <<>> THEN <<>>
    ELSE <<intervalChunk(session, Head(intervals))>> \o intervalChunks(session, Tail(intervals))

\* The chunks array of formatIcuWorkoutText, before the join.
formatIcuWorkoutChunks(session) ==
    bufferChunks("Wu", session.warmup)
        \o (IF Len(session.intervals) > 0 THEN intervalChunks(session, session.intervals)
            ELSE <<continuousChunk(session)>>)
        \o bufferChunks("Cd", session.cooldown)

\* chunks.join(sep)
RECURSIVE Join(_, _)
Join(chunks, sep) ==
    IF chunks = <<>> THEN ""
    ELSE IF Len(chunks) = 1 THEN chunks[1]
    ELSE chunks[1] \o sep \o Join(Tail(chunks), sep)

\* formatIcuWorkoutText(session)
formatIcuWorkoutText(session) ==
    getDynamicTitle(session) \o "\n\n" \o Join(formatIcuWorkoutChunks(session), "; ")

\* The WORKOUT message and the WORKOUT_STEP messages written by
\* buildFitWorkoutFileBase64, before the binary encoding.
buildFitWorkoutFile(session) ==
    LET File(workoutName, steps) ==
            [sport |-> IF isBikeSession(session) THEN "cycling" ELSE "running",
             subSport |-> IF isBikeSession(session) THEN "road" ELSE "street",
             numValidSteps |-> Len(steps),
             wktName |-> workoutName,
             wktDescription |-> IF session.description # "" THEN session.description
                                ELSE workoutName,
             steps |-> steps]
    IN  File(getDynamicTitle(session), buildFitWorkoutSteps(session))

\* buildWorkoutPayload(session, date)
buildWorkoutPayload(session, date) ==
    LET Payload(dynamicTitle) ==
            [category |-> "WORKOUT",
             type |-> getIcuType(session.sport),
             name |-> dynamicTitle,
             description |-> formatIcuWorkoutText(session),
             filename |-> sanitizeFilename(dynamicTitle) \o ".fit",
             fit |-> buildFitWorkoutFile(session),
             start_date_local |-> date \o "T12:00:00",
             moving_time |-> Max(0, session.duration * 60)]
    IN  Payload(getDynamicTitle(session))

----------------------------------------------------------------------------
(* Pace model: src/utils/calculations.ts                                   *)
(*                                                                         *)
(* A pace is milliseconds per kilometre, a race time milliseconds, a pace  *)
(* correction whole seconds.  Math.pow(x, 1.06) and the 30-step bisection  *)
(* built on it have no integer counterpart: both are tabulated, from their *)
(* IEEE evaluation, at the arguments the program passes for the benchmarks *)
(* of the model (a 5000 m race; the planner normalises every profile to    *)
(* that distance).  A lookup outside the table is an evaluation error.     *)

\* round(a * b / c) for a, b >= 0 and c > 0, every intermediate value kept
\* within 32 bits.
MulDivRound(a, b, c) == (a \div c) * b + (((a % c) * b + c \div 2) \div c)

\* A variant that rounds the sum of the penalties without bounding it.
getWeatherPaceDeltaSecondsUnbounded(basePaceMs, temperature10, humidity10, wind10) ==
    LET Heat == IF temperature10 > 120 THEN 50 * (temperature10 - 120) ELSE 0
        Cold == IF temperature10 < 50 THEN 25 * (50 - temperature10) ELSE 0
        Humid == IF temperature10 >= 180 /\ humidity10 > 600
                 THEN 6 * (humidity10 - 600) ELSE 0
        Wind == IF wind10 > 120 THEN 12 * (wind10 - 120) ELSE 0
    IN  IF basePaceMs <= 0 THEN 0
        ELSE RoundDiv(Heat + Cold + Humid + Wind, 1000)

\* getWeatherPaceDeltaSeconds(basePaceSec, temperatureC, humidityPct, windKmh):
\* temperature, humidity and wind in tenths, the sum of the penalties in
\* thousandths of a second.  (A sum that lies exactly halfway between two
\* whole seconds is rounded by the program on its double value; the
\* snapshots of the model are not of that kind.)
getWeatherPaceDeltaSeconds(basePaceMs, temperature10, humidity10, wind10) ==
    LET Heat == IF temperature10 > 120 THEN 50 * (temperature10 - 120) ELSE 0
        Cold == IF temperature10 < 50 THEN 25 * (50 - temperature10) ELSE 0
        Humid == IF temperature10 >= 180 /\ humidity10 > 600
                 THEN 6 * (humidity10 - 600) ELSE 0
        Wind == IF wind10 > 120 THEN 12 * (wind10 - 120) ELSE 0
    IN  IF basePaceMs <= 0 THEN 0
        ELSE RoundDiv(Max(0 - 5000, Min(20000, Heat + Cold + Humid + Wind)), 1000)

\* A variant that corrects an undeterminable (zero) pace as well.
applyPaceCorrectionUnguarded(paceMs, deltaSec) == Max(1000, paceMs + deltaSec * 1000)

\* applyPaceCorrection(paceSec, deltaSec)
applyPaceCorrection(paceMs, deltaSec) ==
    IF paceMs <= 0 THEN 0 ELSE Max(1000, paceMs + deltaSec * 1000)

\* Math.pow(targetDistMeters / raceDistMeters, 1.06), in millionths.
fatiguePow(raceDistMeters, targetDistMeters) ==
    CASE raceDistMeters = 5000 /\ targetDistMeters = 5000 -> 1000000
      [] raceDistMeters = 5000 /\ targetDistMeters = 6000 -> 1213199
      [] raceDistMeters = 5000 /\ targetDistMeters = 8000 -> 1645763
      [] raceDistMeters = 5000 /\ targetDistMeters = 10000 -> 2084932
      [] raceDistMeters = 5000 /\ targetDistMeters = 15000 -> 3204413
      [] raceDistMeters = 5000 /\ targetDistMeters = 21097 -> 4600084
      [] raceDistMeters = 5000 /\ targetDistMeters = 30000 -> 6680982
      [] raceDistMeters = 5000 /\ targetDistMeters = 42195 -> 9591101

\* predictRaceTime(raceDistMeters, raceTimeStr, targetDistMeters), milliseconds.
predictRaceTime(raceDistMeters, raceTimeStr, targetDistMeters) ==
    LET Predicted(tInput) ==
            IF tInput = 0 \/ raceDistMeters = 0 \/ targetDistMeters = 0 THEN 0
            ELSE MulDivRound(fatiguePow(raceDistMeters, targetDistMeters), tInput, 1000)
    IN  Predicted(timeToSeconds(raceTimeStr))

\* A variant without the fatigue exponent: the race time itself spread over
\* the target distance.
calculatePaceForDistanceUnscaled(raceDistMeters, raceTimeStr, targetDistMeters) ==
    IF predictRaceTime(raceDistMeters, raceTimeStr, targetDistMeters) = 0 THEN 0
    ELSE MulDivRound(timeToSeconds(raceTimeStr) * 1000, 1000, targetDistMeters)

\* calculatePaceForDistance(raceDistMeters, raceTimeStr, targetDistMeters)
calculatePaceForDistance(raceDistMeters, raceTimeStr, targetDistMeters) ==
    LET Pace(predictedSeconds) ==
            IF predictedSeconds = 0 THEN 0
            ELSE MulDivRound(predictedSeconds, 1000, targetDistMeters)
    IN  Pace(predictRaceTime(raceDistMeters, raceTimeStr, targetDistMeters))

\* getRaceEquivalentPaces(profile)
getRaceEquivalentPaces(prof) ==
    [p15k |-> calculatePaceForDistance(prof.raceDistance, prof.raceTime, 15000),
     pHalf |-> calculatePaceForDistance(prof.raceDistance, prof.raceTime, 21097),
     p30k |-> calculatePaceForDistance(prof.raceDistance, prof.raceTime, 30000),
     pMarathon |-> calculatePaceForDistance(prof.raceDistance, prof.raceTime, 42195)]

\* distAt60 of estimate60MinThresholdFromSingleResult: the distance the
\* bisection over [6000, 30000] ends on, in decimetres.  A result slower
\* than 3600 s at 6000 m ends on the lower end of the bracket, a negative
\* race time (every predicted time negative) on the upper end.
distAt60(raceDistMeters, tInput) ==
    CASE raceDistMeters = 5000 /\ tInput = 1147 -> 147093
      [] raceDistMeters = 5000 /\ tInput = 1300 -> 130704
      [] raceDistMeters = 5000 /\ tInput = 1530 -> 112085
      [] raceDistMeters = 5000 /\ tInput = 3569 -> 60000
      [] raceDistMeters = 5000 /\ tInput = 3631 -> 60000
      [] raceDistMeters = 5000 /\ tInput = -300 -> 300000

\* estimate60MinThresholdFromSingleResult(raceDistMeters, raceTimeStr)
estimate60MinThresholdFromSingleResult(raceDistMeters, raceTimeStr) ==
    LET Estimate(tInput) ==
            IF tInput = 0 \/ raceDistMeters = 0 THEN 0
            ELSE IF Abs(tInput - 3600) <= 30
            THEN MulDivRound(tInput * 1000, 1000, raceDistMeters)
            ELSE MulDivRound(3600000, 10000, distAt60(raceDistMeters, tInput))
    IN  Estimate(timeToSeconds(raceTimeStr))

\* estimate60MinThresholdFromCriticalSpeed(profile): 1000 / cs * 1.01 with
\* cs = (d2 - d1) / (t2 - t1).  A profile without a second result carries
\* raceDistance2 = 0 and raceTime2 = "".
estimate60MinThresholdFromCriticalSpeed(prof) ==
    LET Model(d1, t1, d2, t2) ==
            IF d1 <= 0 \/ d2 <= 0 THEN 0
            ELSE IF t1 <= 0 \/ t2 <= 0 THEN 0
            ELSE IF t2 <= t1 \/ d2 <= d1 THEN 0
            ELSE MulDivRound(1010000, t2 - t1, d2 - d1)
    IN  Model(prof.raceDistance, timeToSeconds(prof.raceTime),
              prof.raceDistance2, timeToSeconds(prof.raceTime2))

\* A variant that takes the two-result model only when the single-result
\* estimate is undeterminable.
get60MinThresholdPaceSingleFirst(prof) ==
    LET Select(single) ==
            IF single > 0 THEN single
            ELSE estimate60MinThresholdFromCriticalSpeed(prof)
    IN  Select(estimate60MinThresholdFromSingleResult(prof.raceDistance, prof.raceTime))

\* get60MinThresholdPace(profile)
get60MinThresholdPace(prof) ==
    LET Select(csPace) ==
            IF csPace > 0 THEN csPace
            ELSE estimate60MinThresholdFromSingleResult(prof.raceDistance, prof.raceTime)
    IN  Select(estimate60MinThresholdFromCriticalSpeed(prof))

\* calculateThresholdPace(raceDistMeters, raceTimeStr, profile?): the optional
\* profile is <<>> when absent and <<profile>> when given.
calculateThresholdPace(raceDistMeters, raceTimeStr, optProfile) ==
    IF optProfile # <<>> THEN get60MinThresholdPace(optProfile[1])
    ELSE estimate60MinThresholdFromSingleResult(raceDistMeters, raceTimeStr)

\* getEasyRunPaceRange(profile, correctionSec)
getEasyRunPaceRange(prof, corr) ==
    LET Range(correctedLow, correctedHigh) ==
            [low |-> correctedLow, high |-> correctedHigh,
             center |-> (correctedLow + correctedHigh) \div 2]
        Corrected(low, high) ==
            Range(applyPaceCorrection(low, corr),
                  applyPaceCorrection(high, corr))
        Fallback(threshold) ==
            Corrected(RoundDiv(threshold * 132, 100), RoundDiv(threshold * 144, 100))
        FromMarathon(pMarathon) ==
            IF pMarathon > 0 THEN Corrected(pMarathon + 74000, pMarathon + 104000)
            ELSE Fallback(calculateThresholdPace(prof.raceDistance, prof.raceTime,
                                                 <<prof>>))
    IN  FromMarathon(getRaceEquivalentPaces(prof).pMarathon)

\* A variant without the three rows below the 1K row: every rep of at most
\* 1000 m runs at 15K pace.
getSinglesTargetPaceNoShortRows(prof, repDistanceMeters, threshold60PaceSec, corr) ==
    LET Anchor(base, effort) ==
            [paceSec |-> applyPaceCorrection(base, corr), effort |-> effort]
        Select(p) ==
            IF repDistanceMeters <= 1000 /\ p.p15k > 0 THEN Anchor(p.p15k, "1K Pace")
            ELSE IF repDistanceMeters <= 2000 /\ p.pHalf > 0
            THEN Anchor(p.pHalf, "Half Marathon Pace")
            ELSE IF repDistanceMeters <= 3500 /\ p.p30k > 0 THEN Anchor(p.p30k, "30K Pace")
            ELSE IF p.pMarathon > 0 THEN Anchor(p.pMarathon, "Marathon Pace")
            ELSE Anchor(threshold60PaceSec, "Subthreshold Pace")
    IN  IF threshold60PaceSec <= 0 THEN [paceSec |-> 0, effort |-> "NSA Singles"]
        ELSE Select(getRaceEquivalentPaces(prof))

\* getSinglesTargetPace(profile, repDistanceMeters, threshold60PaceSec, correctionSec)
getSinglesTargetPace(prof, repDistanceMeters, threshold60PaceSec, corr) ==
    LET Anchor(base, effort) ==
            [paceSec |-> applyPaceCorrection(base, corr), effort |-> effort]
        Select(p) ==
            IF repDistanceMeters <= 450 /\ p.p15k > 0 THEN Anchor(p.p15k - 9000, "400m Pace")
            ELSE IF repDistanceMeters <= 650 /\ p.p15k > 0
            THEN Anchor(p.p15k - 6000, "600m Pace")
            ELSE IF repDistanceMeters <= 850 /\ p.p15k > 0
            THEN Anchor(p.p15k - 3000, "800m Pace")
            ELSE IF repDistanceMeters <= 1000 /\ p.p15k > 0 THEN Anchor(p.p15k, "1K Pace")
            ELSE IF repDistanceMeters <= 2000 /\ p.pHalf > 0
            THEN Anchor(p.pHalf, "Half Marathon Pace")
            ELSE IF repDistanceMeters <= 3500 /\ p.p30k > 0 THEN Anchor(p.p30k, "30K Pace")
            ELSE IF p.pMarathon > 0 THEN Anchor(p.pMarathon, "Marathon Pace")
            ELSE Anchor(threshold60PaceSec, "Subthreshold Pace")
    IN  IF threshold60PaceSec <= 0 THEN [paceSec |-> 0, effort |-> "NSA Singles"]
        ELSE Select(getRaceEquivalentPaces(prof))

\* getIntervalPaceRange(profile, distanceMeters, correctionSec)
getIntervalPaceRange(prof, distanceMeters, corr) ==
    LET Band(target) ==
            IF target.paceSec = 0 THEN [range |-> "0:00-0:00", effort |-> target.effort]
            ELSE [range |-> secondsToTime(target.paceSec) \o "-"
                              \o secondsToTime(target.paceSec + 10000),
                  effort |-> target.effort]
    IN  Band(getSinglesTargetPace(prof, distanceMeters, get60MinThresholdPace(prof),
                                  corr))

\* formatThresholdSessionTitle(reps, distanceMeters)
formatThresholdSessionTitle(reps, distanceMeters) ==
    LET Label(dist) ==
            IF dist >= 1000 THEN FormatThousandths(RoundDiv(dist, 100) * 100) \o "km"
            ELSE ToString(dist) \o "m"
    IN  "SubT " \o ToString(Max(1, IF reps = 0 THEN 1 ELSE reps)) \o "x"
            \o Label(Max(0, distanceMeters))

----------------------------------------------------------------------------
(* Weekly plan synthesizer: generatePlan, src/utils/calculations.ts        *)
(*                                                                         *)
(* A profile is a record                                                   *)
(*   [raceDistance, raceTime, raceDistance2, raceTime2, ftp, weeklyVolume, *)
(*    warmupDist, cooldownDist, schedule, scheduleSport]                   *)
(* with weeklyVolume, warmupDist and cooldownDist in metres; schedule is   *)
(* the list of <<day, DayType>> entries in the key order of the object;    *)
(* scheduleSport is a function from the days that have an entry to their   *)
(* sport.  A session is a WorkoutSession record with distance in metres    *)
(* and duration in minutes; `null` is <<>> and a session s is <<s>>.       *)
(* The fields environment and treadmillInclinePct, which neither the       *)
(* synthesizer nor the encoder reads, are left out.                        *)
(*                                                                         *)
(* DayType:     "Rest", "Easy Run", "Threshold", "Long Run"                *)
(* WorkoutType: "Easy", "Threshold", "Long Run", "Rest", "Race"            *)

thresholdTemplates ==
    << [reps |-> 5, dist |-> 2000, rest |-> "60s"],
       [reps |-> 8, dist |-> 1000, rest |-> "60s"],
       [reps |-> 3, dist |-> 3000, rest |-> "90s"] >>

dayOrder ==
    <<"Monday", "Tuesday", "Wednesday", "Thursday", "Friday", "Saturday", "Sunday">>

\* Object.entries(schedule).filter(([, t]) => t === type).map(([day]) => day)
RECURSIVE daysOfType(_, _)
daysOfType(schedule, type) ==
    IF schedule = <<>> THEN <<>>
    ELSE IF Head(schedule)[2] = type
    THEN <<Head(schedule)[1]>> \o daysOfType(Tail(schedule), type)
    ELSE daysOfType(Tail(schedule), type)

\* profile.schedule[dayName] || DayType.REST
RECURSIVE scheduleType(_, _)
scheduleType(schedule, dayName) ==
    IF schedule = <<>> THEN "Rest"
    ELSE IF Head(schedule)[1] = dayName THEN Head(schedule)[2]
    ELSE scheduleType(Tail(schedule), dayName)

\* profile.scheduleSport?.[dayName] || 'run'
sportOf(prof, dayName) ==
    IF dayName \in DOMAIN prof.scheduleSport THEN prof.scheduleSport[dayName]
    ELSE "run"

\* Array.prototype.indexOf, zero-based, -1 when absent.
RECURSIVE indexOfFrom(_, _, _)
indexOfFrom(s, x, i) ==
    IF i > Len(s) THEN 0 - 1
    ELSE IF s[i] = x THEN i - 1 ELSE indexOfFrom(s, x, i + 1)

indexOf(s, x) == indexOfFrom(s, x, 1)

\* A variant without the rotation: every Threshold day takes the first template.
templateAtFirst(idx) == thresholdTemplates[1]

\* thresholdTemplates[idx % thresholdTemplates.length]
templateAt(idx) == thresholdTemplates[(idx % Len(thresholdTemplates)) + 1]

\* wu + cd + reps * dist / 1000 for one template.
templateDist(tpl, wu, cd) == wu + cd + tpl.reps * tpl.dist

\* thresholdSessionDists
thresholdSessionDists(thresholdDays, wu, cd) ==
    [idx \in 1..Len(thresholdDays) |-> templateDist(templateAt(idx - 1), wu, cd)]

\* maxThresholdDist
maxThresholdDist(dists) == IF Len(dists) > 0 THEN MaxSeq(dists) ELSE 0

\* minEasyDist
minEasyDist(easyDaysCount) == IF easyDaysCount > 0 THEN 6000 ELSE 0

\* lrDist after its three assignments.
longRunDist(targetKm, maxDist, minEasy) ==
    Max(Max(Max(15000, RoundDiv(targetKm * 28, 100000) * 1000), maxDist + 1000),
        minEasy + 1000)

\* easyDist: the remaining volume above the fixed sessions, shared by the
\* Easy days and rounded to 0.1 km.
easyDistOf(targetKm, thresholdTotalKm, lrDist, easyDaysCount, minEasy) ==
    LET Shared(remainingKm) ==
            Max(minEasy, RoundDiv(minEasy * easyDaysCount + remainingKm,
                                  100 * easyDaysCount) * 100)
    IN  IF easyDaysCount > 0
        THEN Shared(Max(0, targetKm - (thresholdTotalKm + lrDist + easyDaysCount * minEasy)))
        ELSE 0

\* Math.round(distKm * paceSec / 60 * num / den): minutes at a pace, exact.
paceMinutes(distM, paceMs, num, den) ==
    (num * (distM * (paceMs \div 1000))
        + (num * (distM * (paceMs % 1000)) + 30000000 * den) \div 1000) \div (60000 * den)

\* The values generatePlan computes before it builds sessions.
planLocals(prof, corr) ==
    LET Locals(easyRange, targetKm, thresholdDays, easyDays, lrDist, easyDist) ==
            [tPace |-> applyPaceCorrection(
                           calculateThresholdPace(prof.raceDistance, prof.raceTime,
                                                  <<prof>>), corr),
             easyRange |-> easyRange,
             easyPace |-> easyRange.center,
             easyRangeText |-> secondsToTime(easyRange.low) \o "-"
                                   \o secondsToTime(easyRange.high),
             targetKm |-> targetKm,
             wu |-> prof.warmupDist,
             cd |-> prof.cooldownDist,
             thresholdDays |-> thresholdDays,
             easyDays |-> easyDays,
             lrDist |-> lrDist,
             easyDist |-> easyDist,
             ftp |-> prof.ftp]
        WithLong(targetKm, thresholdDays, easyDays, dists, lrDist) ==
            Locals(getEasyRunPaceRange(prof, corr), targetKm, thresholdDays,
                   easyDays, lrDist,
                   easyDistOf(targetKm, SumSeq(dists), lrDist, Len(easyDays),
                              minEasyDist(Len(easyDays))))
        WithDists(targetKm, thresholdDays, easyDays, dists) ==
            WithLong(targetKm, thresholdDays, easyDays, dists,
                     longRunDist(targetKm, maxThresholdDist(dists),
                                 minEasyDist(Len(easyDays))))
        WithDays(thresholdDays, easyDays) ==
            WithDists(Max(0, prof.weeklyVolume), thresholdDays, easyDays,
                      thresholdSessionDists(thresholdDays, prof.warmupDist,
                                            prof.cooldownDist))
    IN  WithDays(daysOfType(prof.schedule, "Threshold"),
                 daysOfType(prof.schedule, "Easy Run"))

\* One Interval literal of the synthesizer.
PlanInterval(distance, count, paceText, rest, description, targetZone, powerLow, powerHigh) ==
    [distance |-> distance, durationSec |-> 0, count |-> count, pace |-> paceText,
     rest |-> rest, description |-> description, targetZone |-> targetZone,
     targetPowerLow |-> powerLow, targetPowerHigh |-> powerHigh]

\* One WorkoutSession literal of the synthesizer.
WorkoutSession(id, title, type, sport, useHeartRateTarget, distance, duration, description, intervals, warmup, cooldown) ==
    [id |-> id, title |-> title, type |-> type, sport |-> sport,
     useHeartRateTarget |-> useHeartRateTarget, targetHrLow |-> 0, targetHrHigh |-> 0,
     distance |-> distance, duration |-> duration, description |-> description,
     intervals |-> intervals, warmup |-> warmup, cooldown |-> cooldown,
     variants |-> <<>>, icuEventId |-> 0]

\* { ...variants[0], variants }
withVariants(variants) == [variants[1] EXCEPT !.variants = variants]

\* `${a}-${b}w` with a = Math.round(ftp * lowPct / 100), b likewise.
wattRange(ftp, lowPct, highPct) ==
    ToString(RoundDiv(ftp * lowPct, 100)) \o "-" \o ToString(RoundDiv(ftp * highPct, 100))
        \o "w"

\* createThresholdSession(id, dayName)
createThresholdSession(prof, corr, g, id, dayName) ==
    LET Built(tpl, paceData, sessionDist) ==
            WorkoutSession(id, formatThresholdSessionTitle(tpl.reps, tpl.dist), "Threshold",
                "run", FALSE, RoundDiv(sessionDist, 100) * 100,
                paceMinutes(sessionDist, g.tPace, 21, 20),
                "Strictly controlled sub-threshold. Stay below lactate turnpoint.",
                <<PlanInterval(tpl.dist, tpl.reps, paceData.range, tpl.rest,
                               paceData.effort, "", 0, 0)>>,
                FormatThousandths(g.wu) \o "km easy pace",
                FormatThousandths(g.cd) \o "km easy pace")
        FromTemplate(tpl) ==
            Built(tpl, getIntervalPaceRange(prof, tpl.dist, corr),
                  templateDist(tpl, g.wu, g.cd))
    IN  FromTemplate(templateAt(Max(0, indexOf(g.thresholdDays, dayName))))

\* createLongRun(id)
createLongRun(prof, corr, g, id) ==
    LET Variants(mpSec, steadyPaceSec) ==
            << WorkoutSession(id \o "-easy", "Easy Long Run", "Long Run", "run", FALSE,
                   g.lrDist, paceMinutes(g.lrDist, g.easyPace, 1, 1),
                   "Continuous easy endurance run.",
                   <<PlanInterval(g.lrDist, 1, g.easyRangeText, "0", "Easy", "", 0, 0)>>,
                   "Direct start", "Walk off"),
               WorkoutSession(id \o "-prog", "Progressive Long Run", "Long Run", "run", FALSE,
                   g.lrDist, paceMinutes(g.lrDist, steadyPaceSec, 1, 1),
                   "Build: 50% Easy, 30% Steady, 20% Marathon Pace.",
                   <<PlanInterval(RoundDiv(g.lrDist * 5, 10), 1, secondsToTime(g.easyPace),
                                  "0", "Easy", "", 0, 0),
                     PlanInterval(RoundDiv(g.lrDist * 3, 10), 1, secondsToTime(steadyPaceSec),
                                  "0", "Steady", "", 0, 0),
                     PlanInterval(RoundDiv(g.lrDist * 2, 10), 1, secondsToTime(mpSec),
                                  "0", "MP", "", 0, 0)>>,
                   "Direct start", "Walk off"),
               WorkoutSession(id \o "-blocks", "3x5km MP Long Run", "Long Run", "run", FALSE,
                   RoundDiv(g.wu + g.cd + 15000, 100) * 100,
                   RoundDiv(mpSec + 20 * (g.wu + g.cd), 4000),
                   "High specificity. 3 blocks of 5km at Marathon Pace.",
                   <<PlanInterval(5000, 3, secondsToTime(mpSec), "1km float",
                                  "Marathon Pace", "", 0, 0)>>,
                   FormatThousandths(g.wu) \o "km Easy",
                   FormatThousandths(g.cd) \o "km Easy") >>
        Steady(mpSec) == Variants(mpSec, (g.easyPace + mpSec) \div 2)
    IN  withVariants(Steady(applyPaceCorrection(
            calculatePaceForDistance(prof.raceDistance, prof.raceTime, 42195),
            corr)))

\* createEasyRun(id, dist)
createEasyRun(g, id, dist) ==
    WorkoutSession(id, "Easy Run", "Easy", "run", FALSE, dist,
        paceMinutes(dist, g.easyPace, 1, 1),
        "Target Pace: " \o secondsToTime(g.easyRange.low) \o "-"
            \o secondsToTime(g.easyRange.high) \o "/km",
        <<>>, "N/A", "N/A")

\* bikeSpeedKmh(type)
bikeSpeedKmh(type) ==
    IF type = "Threshold" THEN 34 ELSE IF type = "Long Run" THEN 31 ELSE 30

\* Math.round((runEquivalentMin / 60) * 30).  For an odd minute count the
\* exact value lies halfway between two integers; the double quotient
\* (n / 60) * 30 falls below it for the counts listed (all such n < 1000).
bikeEasyKm(runEquivalentMin) ==
    IF runEquivalentMin \in {123, 245, 247, 505, 507, 509, 965, 969, 973, 995, 999}
    THEN RoundDiv(runEquivalentMin * bikeSpeedKmh("Easy"), 60) - 1
    ELSE RoundDiv(runEquivalentMin * bikeSpeedKmh("Easy"), 60)

\* createBikeEasy(id)
createBikeEasy(g, id) ==
    LET Ride(runEquivalentMin, distanceKm) ==
            WorkoutSession(id, "Easy Ride", "Easy", "bike", TRUE, distanceKm * 1000,
                runEquivalentMin,
                IF g.ftp > 0
                THEN "Zone 2 endurance ride (" \o wattRange(g.ftp, 56, 75) \o ")."
                ELSE "Zone 2 endurance ride.",
                <<PlanInterval(distanceKm * 1000, 1, "", "0", "Zone 2", "Z2", 0, 0)>>,
                "10m easy spin", "5m easy spin")
        FromMinutes(runEquivalentMin) ==
            Ride(runEquivalentMin, Max(20, bikeEasyKm(runEquivalentMin)))
    IN  FromMinutes(paceMinutes(g.easyDist, g.easyPace, 1, 1))

\* createBikeThreshold(id, dayName)
createBikeThreshold(prof, corr, g, id, dayName) ==
    LET Ride(tpl, bikeRepMeters, workMinutes) ==
            WorkoutSession(id,
                "SubT " \o ToString(tpl.reps) \o "x"
                    \o FormatThousandths(RoundDiv(bikeRepMeters, 100) * 100) \o "km",
                "Threshold", "bike", TRUE,
                RoundDiv(bikeRepMeters * tpl.reps, 100) * 100,
                15 + workMinutes + Max(0, tpl.reps - 1) * 2 + 10,
                IF g.ftp > 0
                THEN "Subthreshold cycling. " \o wattRange(g.ftp, 92, 98) \o " (92-98% FTP)."
                ELSE "Subthreshold cycling. Zone 3 effort.",
                <<PlanInterval(bikeRepMeters, tpl.reps, "", "120s",
                               IF g.ftp > 0 THEN wattRange(g.ftp, 92, 98) ELSE "Zone 3",
                               "Z3",
                               IF g.ftp > 0 THEN RoundDiv(g.ftp * 92, 100) ELSE 0,
                               IF g.ftp > 0 THEN RoundDiv(g.ftp * 98, 100) ELSE 0)>>,
                "15m easy spin", "10m easy spin")
        FromRep(tpl, runRepSec) ==
            Ride(tpl,
                 Max(1000, RoundDiv(runRepSec * bikeSpeedKmh("Threshold") * 1000, 3600)),
                 RoundDiv(runRepSec * tpl.reps, 60))
        FromPace(tpl, runPace) == FromRep(tpl, (timeToSeconds(runPace) * tpl.dist) \div 1000)
        FromTemplate(tpl) ==
            FromPace(tpl, Split(getIntervalPaceRange(prof, tpl.dist, corr).range,
                                "-")[1])
    IN  FromTemplate(templateAt(Max(0, indexOf(g.thresholdDays, dayName))))

\* createBikeLong(id)
createBikeLong(g, id) ==
    LET Zone3(lowPct, highPct) ==
            IF g.ftp > 0 THEN wattRange(g.ftp, lowPct, highPct) ELSE "Zone 3"
        Power(pct) == IF g.ftp > 0 THEN RoundDiv(g.ftp * pct, 100) ELSE 0
        LegMeters(minutes) == RoundDiv(minutes * bikeSpeedKmh("Long Run") * 1000, 60)
    IN  withVariants(
            << WorkoutSession(id \o "-easy", "Easy Long Ride", "Long Run", "bike", TRUE,
                   0, 120,
                   IF g.ftp > 0 THEN "Aerobic long ride " \o wattRange(g.ftp, 56, 75) \o "."
                   ELSE "Aerobic long ride in Zone 2.",
                   <<PlanInterval(LegMeters(120), 1, "", "0", "Zone 2", "Z2", 0, 0)>>,
                   "10m easy spin", "5m easy spin"),
               WorkoutSession(id \o "-prog", "Progressive Long Ride", "Long Run", "bike", TRUE,
                   0, 120,
                   IF g.ftp > 0
                   THEN "Progressive ride with tempo finish (" \o wattRange(g.ftp, 80, 88)
                            \o ")."
                   ELSE "Progressive ride finishing upper aerobic.",
                   <<PlanInterval(LegMeters(60), 1, "", "0", "Zone 2", "Z2", 0, 0),
                     PlanInterval(LegMeters(36), 1, "", "0", Zone3(80, 88), "Z3",
                                  Power(80), Power(88)),
                     PlanInterval(LegMeters(24), 1, "", "0", "Zone 2", "Z2", 0, 0)>>,
                   "10m easy spin", "5m easy spin"),
               WorkoutSession(id \o "-blocks", "3x20min Tempo Ride", "Long Run", "bike", TRUE,
                   0, 130,
                   IF g.ftp > 0 THEN "3x20 min tempo at " \o wattRange(g.ftp, 85, 92) \o "."
                   ELSE "3x20 min tempo in Zone 3.",
                   <<PlanInterval(LegMeters(20), 3, "", "300s", Zone3(85, 92), "Z3",
                                  Power(85), Power(92))>>,
                   "15m easy spin", "10m easy spin") >>)

\* One entry of dailyPlans as generatePlan first builds it.
dailyPlan(prof, corr, g, dayName) ==
    LET Day(type, session) == [day |-> dayName, type |-> type, session |-> session]
        Build(type, id, sport) ==
            IF type = "Threshold"
            THEN Day(type, IF sport = "bike"
                           THEN <<createBikeThreshold(prof, corr, g, id, dayName)>>
                           ELSE <<createThresholdSession(prof, corr, g, id,
                                                         dayName)>>)
            ELSE IF type = "Long Run"
            THEN Day(type, IF sport = "bike" THEN <<createBikeLong(g, id)>>
                           ELSE <<createLongRun(prof, corr, g, id)>>)
            ELSE IF type = "Easy Run"
            THEN Day(type, IF sport = "bike" THEN <<createBikeEasy(g, id)>>
                           ELSE IF g.easyDist >= 4000
                           THEN <<createEasyRun(g, id, g.easyDist)>>
                           ELSE <<>>)
            ELSE Day(type, <<>>)
    IN  Build(scheduleType(prof.schedule, dayName), ToLower(dayName),
              sportOf(prof, dayName))

\* dailyPlans
dailyPlans(prof, corr, g) ==
    [i \in 1..Len(dayOrder) |-> dailyPlan(prof, corr, g, dayOrder[i])]

\* days.reduce((sum, d) => sum + (d.session?.distance || 0), 0)
RECURSIVE sumDistances(_)
sumDistances(days) ==
    IF days = <<>> THEN 0
    ELSE (IF Head(days).session = <<>> THEN 0 ELSE Head(days).session[1].distance)
            + sumDistances(Tail(days))

\* Math.round(x * 10) for x = num / (100 * den) km, where x is the double
\* `distance + perEasyDelta`.  When the exact x * 10 lies halfway between two
\* integers, the rounding errors of the doubles that entered the sum decide
\* the direction: tieUp is that outcome.
roundTenths(num, den, tieUp) ==
    IF (2 * num + 100 * den) % (200 * den) = 0 /\ ~tieUp
    THEN RoundDiv(num, 100 * den) - 1
    ELSE RoundDiv(num, 100 * den)

\* A variant that gives every Easy session the whole difference.
reconciledDistanceWholeDelta(distance, delta, easyDaysCount, tieUp) ==
    Max(4000, roundTenths(distance + delta, 1, tieUp) * 100)

\* Math.max(4, Math.round((distance + perEasyDelta) * 10) / 10) with
\* perEasyDelta = delta / easyDays.length.
reconciledDistance(distance, delta, easyDaysCount, tieUp) ==
    Max(4000, roundTenths(distance * easyDaysCount + delta, easyDaysCount, tieUp) * 100)

\* A variant that adjusts the session of every day, whatever its type.
reconcileDayEverySession(d, delta, easyDaysCount, ties) ==
    IF d.session # <<>>
    THEN [d EXCEPT !.session[1].distance =
                     reconciledDistance(@, delta, easyDaysCount, ties[d.session[1].sport])]
    ELSE d

\* The forEach of the reconciliation on one day.  All Easy sessions of one
\* sport enter with the same distance, so ties[sport] is the direction of
\* their common rounding.
reconcileDay(d, delta, easyDaysCount, ties) ==
    IF d.session # <<>> /\ d.session[1].type = "Easy"
    THEN [d EXCEPT !.session[1].distance =
                     reconciledDistance(@, delta, easyDaysCount, ties[d.session[1].sport])]
    ELSE d

\* dailyPlans after the reconciliation step.
reconcile(days, targetKm, easyDaysCount, ties) ==
    LET Adjust(actualTotal) ==
            IF easyDaysCount > 0 /\ actualTotal # targetKm
            THEN [i \in 1..Len(days) |->
                    reconcileDay(days[i], targetKm - actualTotal, easyDaysCount, ties)]
            ELSE days
    IN  Adjust(sumDistances(days))

\* The directions a halfway rounding of the reconciliation can take, per sport.
RoundingTies == [{"run", "bike"} -> BOOLEAN]

\* generatePlan(profile, correctionSec); ties resolves the halfway roundings
\* of the reconciliation.
generatePlan(prof, corr, ties) ==
    LET WeeklyPlan(days) ==
            [totalDistance |-> RoundDiv(sumDistances(days), 100) * 100, days |-> days]
        FromLocals(g) ==
            WeeklyPlan(reconcile(dailyPlans(prof, corr, g), g.targetKm,
                                 Len(g.easyDays), ties))
    IN  FromLocals(planLocals(prof, corr))

----------------------------------------------------------------------------
(* Idle values of the sub-machines                                         *)

ClockIdle == [pc |-> "idle", text |-> "", sec |-> 0, out |-> ""]
PaceIdle == [pc |-> "idle", aSec |-> 0, bSec |-> 0, text |-> "", swapped |-> "",
             res |-> <<>>, resSwapped |-> <<>>, resV1 |-> <<>>]
EncIdle == [pc |-> "idle"]
CalcIdle == [pc |-> "idle"]
FetchesIdle == [flights |-> <<>>, started |-> 0, last |-> "none"]
\* No weather machine: no snapshot, status 'idle', no fetch under way.
WeatherIdle == weather = <<>> /\ weatherStatus = "idle" /\ fetches = FetchesIdle
IcuIdle == [pc |-> "idle"]
WeekIdle == [pc |-> "off"]
\* No sync machine: no service call and no whole-week sync.
SyncIdle == icu = IcuIdle /\ week = WeekIdle

----------------------------------------------------------------------------
(* Clock codec machine: a clock text is parsed, then rendered again        *)

MaxClockField == 61
MaxClockHours == 2

\* The ways a non-negative integer is written in a clock field.
FieldTexts(n) == IF n < 10 THEN {ToString(n), "0" \o ToString(n)} ELSE {ToString(n)}

ClockTexts ==
    UNION {
        UNION { { m \o ":" \o s : m \in FieldTexts(mi), s \in FieldTexts(si) }
                \cup { ToString(h) \o ":" \o m \o ":" \o s :
                         h \in 0..MaxClockHours, m \in FieldTexts(mi), s \in FieldTexts(si) }
                : si \in {0, 7, 30, 59, MaxClockField - 1, MaxClockField} }
        : mi \in 0..MaxClockField }
    \cup {"", "90", "abc", "4:3x", "1:2:3:4"}

InitClock ==
    /\ WeatherIdle /\ SyncIdle
    /\ calc = CalcIdle
    /\ clock \in [pc : {"input"}, text : ClockTexts, sec : {0}, out : {""}]
    /\ profile = <<>> /\ correctionSec = 0 /\ plan = <<>>
    /\ enc = EncIdle /\ pace = PaceIdle

ParseClock ==
    /\ clock.pc = "input"
    /\ clock' = [clock EXCEPT !.pc = "parsed", !.sec = timeToSeconds(clock.text)]
    /\ UNCHANGED <<profile, correctionSec, plan, enc, pace, calc, weather, weatherStatus, fetches, icu, week>>

FormatClock ==
    /\ clock.pc = "parsed"
    /\ clock' = [clock EXCEPT !.pc = "formatted", !.out = secondsToTime(clock.sec * 1000)]
    /\ UNCHANGED <<profile, correctionSec, plan, enc, pace, calc, weather, weatherStatus, fetches, icu, week>>

NextClock == ParseClock \/ FormatClock

SpecClock == InitClock /\ [][NextClock]_vars

\* "M:S" or "H:M:S" with every component a non-empty run of digits.
WellFormedClock(t) ==
    /\ Len(Split(t, ":")) \in {2, 3}
    /\ \A i \in 1..Len(Split(t, ":")) : AllDigits(Split(t, ":")[i])

\* The normal form: "m:ss" with m < 60 written without padding when there is
\* no hour, "h:mm:ss" with h >= 1 otherwise; ss (and mm) two digits below 60.
IsNormalClock(t) ==
    LET p == Split(t, ":")
        TwoDigitField(f) == AllDigits(f) /\ Len(f) = 2 /\ DigitsValue(f) < 60
        Plain(f) == AllDigits(f) /\ (Len(f) = 1 \/ Ch(f, 1) # "0")
    IN  \/ Len(p) = 2 /\ Plain(p[1]) /\ DigitsValue(p[1]) < 60 /\ TwoDigitField(p[2])
        \/ Len(p) = 3 /\ Plain(p[1]) /\ DigitsValue(p[1]) >= 1
                      /\ TwoDigitField(p[2]) /\ TwoDigitField(p[3])

\* C10: for every well-formed "M:S" / "H:M:S" text with a positive total,
\* secondsToTime(timeToSeconds(s)) is in normal form (no hour field when the
\* hour is zero, minutes padded only under an hour, seconds always padded)
\* and parses back to the same number of seconds.
C10_ClockRoundTrip ==
    (clock.pc = "formatted" /\ WellFormedClock(clock.text) /\ clock.sec > 0)
        => /\ IsNormalClock(clock.out)
           /\ timeToSeconds(clock.out) = clock.sec

\* C10 witness: a three-field text whose fields overflow (75 s, padded
\* minutes) has been parsed and rendered.
C10_Witness ==
    /\ clock.pc = "formatted"
    /\ clock.text = "1:05:61"
    /\ clock.out = "1:06:01"

----------------------------------------------------------------------------
(* Pace-range machine: a pace text and the same text with its two bounds   *)
(* exchanged are parsed to speed ranges                                    *)

MinPaceSec == 228
PaceStepSec == 11
MaxPaceSteps == 9

PaceSecs == {0} \cup {MinPaceSec + PaceStepSec * k : k \in 0..MaxPaceSteps}

\* The spellings of a two-bound pace text the program meets: as
\* getIntervalPaceRange renders it, with the "/km" the card and the easy-run
\* description append, and hand-typed with blanks and capitals.
PaceText(a, b, style) ==
    LET ta == secondsToTime(a * 1000)
        tb == secondsToTime(b * 1000)
    IN  CASE style = 1 -> ta \o "-" \o tb
          [] style = 2 -> ta \o "-" \o tb \o "/km"
          [] style = 3 -> " " \o ta \o " - " \o tb \o " /KM"
          [] style = 4 -> ta \o "-" \o tb \o " pace"

PaceStyles == 1..4

InitPace ==
    /\ WeatherIdle /\ SyncIdle
    /\ calc = CalcIdle
    /\ \E a \in PaceSecs, b \in PaceSecs, st \in PaceStyles :
          pace = [pc |-> "input", aSec |-> a, bSec |-> b,
                  text |-> PaceText(a, b, st), swapped |-> PaceText(b, a, st),
                  res |-> <<>>, resSwapped |-> <<>>, resV1 |-> <<>>]
    /\ profile = <<>> /\ correctionSec = 0 /\ plan = <<>>
    /\ enc = EncIdle /\ clock = ClockIdle

ParsePace ==
    /\ pace.pc = "input"
    /\ pace' = [pace EXCEPT !.pc = "parsed",
                            !.res = parsePaceRangeToSpeedRaw(pace.text),
                            !.resV1 = parsePaceRangeToSpeedRawV1(pace.text)]
    /\ UNCHANGED <<profile, correctionSec, plan, enc, clock, calc, weather, weatherStatus, fetches, icu, week>>

ParsePaceSwapped ==
    /\ pace.pc = "parsed"
    /\ pace' = [pace EXCEPT !.pc = "done",
                            !.resSwapped = parsePaceRangeToSpeedRaw(pace.swapped)]
    /\ UNCHANGED <<profile, correctionSec, plan, enc, clock, calc, weather, weatherStatus, fetches, icu, week>>

NextPace == ParsePace \/ ParsePaceSwapped

SpecPace == InitPace /\ [][NextPace]_vars

\* C5: every parseable pace text gives low <= high; with two positive
\* bounds, low is the speed of the slower (larger seconds) bound and high
\* the speed of the faster one; and exchanging the two bounds in the text
\* gives the same range.  Both revisions of the parser agree on it.
C5_PaceBandInversion ==
    (pace.pc = "done" /\ pace.res # <<>>)
        => /\ pace.res[1].low <= pace.res[1].high
           /\ pace.resSwapped = pace.res
           /\ pace.resV1 = pace.res
           /\ (pace.aSec > 0 /\ pace.bSec > 0)
                 => /\ pace.res[1].low = speedRaw(Max(pace.aSec, pace.bSec))
                    /\ pace.res[1].high = speedRaw(Min(pace.aSec, pace.bSec))

\* C5 witness: a text written slower-bound-first ("4:32-4:10/km") has been
\* parsed, and so has its exchange.
C5_Witness ==
    /\ pace.pc = "done"
    /\ pace.text = "4:32-4:10/km"
    /\ pace.swapped = "4:10-4:32/km"
    /\ pace.res = <<[low |-> 3676, high |-> 4000]>>

----------------------------------------------------------------------------
(* The encoder machine: one session is encoded by buildWorkoutPayload      *)

\* The longest interval list of an encoded session.
MaxIntervals == 2

Interval(count, distance, durationSec, paceText, rest, targetZone, powerLow, powerHigh) ==
    [count |-> count, distance |-> distance, durationSec |-> durationSec,
     pace |-> paceText, rest |-> rest, targetZone |-> targetZone,
     targetPowerLow |-> powerLow, targetPowerHigh |-> powerHigh]

Session(type, sport, title, description, distance, duration, hr, warmup, cooldown, intervals) ==
    [type |-> type, sport |-> sport, title |-> title, description |-> description,
     distance |-> distance, duration |-> duration,
     useHeartRateTarget |-> hr[1], targetHrLow |-> hr[2], targetHrHigh |-> hr[3],
     warmup |-> warmup, cooldown |-> cooldown, intervals |-> intervals]

NoHr == <<FALSE, 0, 0>>

\* Warmup and cooldown texts: the texts the planner writes, the placeholder
\* spellings, and texts that are neither.
StepTexts ==
    {"", "0", "N/A", "na", " Direct start ", "Walk off", "none", "None",
     "2km easy pace", "1.5km Easy", "10m easy spin", "0km easy pace", "easy jog"}

PlainStepTexts == {"N/A", "1km easy pace"}

StepTextPairs == (StepTexts \X PlainStepTexts) \cup (PlainStepTexts \X StepTexts)

RestTexts == {"60s", "90", "0", "", "jog", "1km float", "N/A", "2m"}

\* Every interval list of at most MaxIntervals - 1 intervals over the pool.
RECURSIVE Tails(_, _)
Tails(pool, n) ==
    IF n <= 0 THEN {<<>>}
    ELSE Tails(pool, n - 1)
            \cup {<<i>> \o t : i \in pool, t \in {u \in Tails(pool, n - 1) : Len(u) = n - 1}}

TailPool ==
    {Interval(3, 1000, 0, "4:00-4:10", "60s", "", 0, 0),
     Interval(1, 5000, 0, "5:10", "jog", "", 0, 0)}

\* Sessions that vary the warmup and the cooldown.
StepTextSessions ==
    {Session("Threshold", "run", "SubT 5x2km", "", 13000, 57, NoHr, w[1], w[2],
             <<Interval(5, 2000, 0, "4:10-4:20", "60s", "", 0, 0)>>) : w \in StepTextPairs}
    \cup {Session("Easy", "run", "Easy Run", "Target Pace: 5:20-5:50/km", 8500, 47, NoHr,
                  w[1], w[2], <<>>) : w \in StepTextPairs}
    \cup {Session("Easy", "bike", "Easy Ride", "", 24000, 48, <<TRUE, 0, 0>>,
                  w[1], w[2], <<Interval(1, 24000, 0, "", "0", "Z2", 0, 0)>>)
             : w \in StepTextPairs}

\* Sessions that vary the repetition structure of the interval list.
RepeatSessions ==
    {Session(k[1], "run", k[2], "", 15000, 80, NoHr, w[1], w[2],
             <<Interval(c, d[1], d[2], "4:10-4:20", r, "", 0, 0)>> \o t)
        : k \in {<<"Threshold", "SubT 5x2km">>, <<"Long Run", "Long Run">>},
          w \in {<<"2km easy pace", "1km easy pace">>, <<"Direct start", "Walk off">>},
          c \in {0, 1, 5},
          d \in {<<2000, 0>>, <<0, 180>>, <<0, 0>>},
          r \in RestTexts,
          t \in Tails(TailPool, MaxIntervals - 1)}

\* Sessions that vary the targets of the work step.
TargetSessions ==
    {Session(ty, sp, "Session", "", 12000, 60, hr, "2km easy pace", "N/A",
             <<Interval(c, 2000, 0, pc, r, "", pw[1], pw[2])>>)
        : ty \in {"Threshold", "Long Run"},
          sp \in {"run", "bike"},
          hr \in {NoHr, <<FALSE, 130, 145>>, <<TRUE, 130, 145>>, <<TRUE, 130, 0>>},
          c \in {5},
          pc \in {"4:32-4:10/km", "4:30", ""},
          r \in {"60s"},
          pw \in {<<0, 0>>, <<230, 245>>, <<230, 0>>}}

\* Sessions that vary the stored title against the first interval.
TitleSessions ==
    {Session(ty, sp, ti, "", 10000, 50, NoHr, "N/A", "N/A", ints)
        : ty \in {"Threshold", "Easy", "Long Run"},
          sp \in {"run"},
          ti \in {"SubT 5x2km", "My session"},
          ints \in {<<>>}
                   \cup {<<Interval(c, d[1], d[2], "4:10-4:20", "60s", "", 0, 0)>>
                            : c \in {0, 5, 8},
                              d \in {<<2000, 0>>, <<400, 0>>, <<1500, 0>>,
                                     <<0, 180>>, <<0, 20>>, <<0, 0>>}}}

EncSessions == StepTextSessions \cup RepeatSessions \cup TargetSessions \cup TitleSessions

EncDates == {"2026-01-05"}

InitEnc ==
    /\ WeatherIdle /\ SyncIdle
    /\ calc = CalcIdle
    /\ profile = <<>> /\ correctionSec = 0 /\ plan = <<>>
    /\ clock = ClockIdle /\ pace = PaceIdle
    /\ \E s \in EncSessions : enc = [pc |-> "ready", session |-> s]

\* syncWorkoutToIcu's call of buildWorkoutPayload(session, date): the payload,
\* with the chunk list of the text kept beside it.
BuildWorkoutPayload ==
    /\ enc.pc = "ready"
    /\ \E date \in EncDates :
          enc' = [pc |-> "built", session |-> enc.session,
                  payload |-> buildWorkoutPayload(enc.session, date),
                  chunks |-> formatIcuWorkoutChunks(enc.session)]
    /\ UNCHANGED <<profile, correctionSec, plan, clock, pace, calc, weather, weatherStatus, fetches, icu, week>>

NextEnc == BuildWorkoutPayload

SpecEnc == InitEnc /\ [][NextEnc]_vars

----------------------------------------------------------------------------
(* Properties of the encoder                                               *)

Built == enc.pc = "built"

FitSteps == enc.payload.fit.steps

Contains(s, p) == \E i \in 1..Len(s) : MatchesAt(s, i, p)

StartsWith(s, p) == MatchesAt(s, 1, p)

IsRepeatStep(st) == st.durationType = "repeatUntilStepsCmplt"

IsWorkStep(st) == ~IsRepeatStep(st) /\ (st.wktStepName = "Run" \/ StartsWith(st.wktStepName, "Run "))

IsRestStep(st) == ~IsRepeatStep(st) /\ StartsWith(st.wktStepName, "Recovery")

IsPlaceholderText(t) == ToLower(Trim(t)) \in PLACEHOLDER_STEP_VALUES

\* The position (from 1) in the step list of the i-th work step.
NthWork(steps, i) ==
    CHOOSE k \in 1..Len(steps) :
        /\ IsWorkStep(steps[k])
        /\ Cardinality({j \in 1..k : IsWorkStep(steps[j])}) = i

\* C4: a warmup (cooldown) text that is a placeholder once trimmed and
\* lower-cased leaves no "Wu" ("Cd") chunk in the text encoding and no warmup
\* (cooldown) step in the FIT step list.
C4_PlaceholderElision ==
    Built =>
        /\ IsPlaceholderText(enc.session.warmup) =>
              /\ \A i \in 1..Len(enc.chunks) : ~StartsWith(enc.chunks[i], "Wu")
              /\ ~Contains(enc.payload.description, "Wu ")
              /\ \A k \in 1..Len(FitSteps) : FitSteps[k].intensity # "warmup"
        /\ IsPlaceholderText(enc.session.cooldown) =>
              /\ \A i \in 1..Len(enc.chunks) : ~StartsWith(enc.chunks[i], "Cd")
              /\ ~Contains(enc.payload.description, "Cd ")
              /\ \A k \in 1..Len(FitSteps) : FitSteps[k].intensity # "cooldown"

C4_Witness ==
    /\ Built
    /\ enc.session.warmup = "N/A" /\ enc.session.cooldown = " Direct start "
    /\ enc.payload.description = "SubT 5x2km\n\n5x[2km @ 4:10-4:20/km run / 60s recovery]"
    /\ Len(FitSteps) = 3

\* C6: every interval with count N > 1 is encoded as its work step, a rest
\* step exactly when its rest text parses to a duration, and then one repeat
\* step with targetValue N whose durationValue is the index (from 0) of the
\* work step; there are as many repeat steps as such intervals; the session
\* made of the lone interval {count 5, distance 2000, rest "60s"} has three
\* steps: work, rest, repeat(5, index 0).
C6_RepeatEncoding ==
    (Built /\ Len(enc.session.intervals) > 0) =>
        LET ints == enc.session.intervals
            steps == FitSteps
        IN  /\ Cardinality({k \in 1..Len(steps) : IsWorkStep(steps[k])}) = Len(ints)
            /\ Cardinality({k \in 1..Len(steps) : IsRepeatStep(steps[k])})
                  = Cardinality({i \in 1..Len(ints) : ints[i].count > 1})
            /\ \A i \in 1..Len(ints) :
                  ints[i].count > 1 =>
                      LET w == NthWork(steps, i)
                          hasRest == parseDurationToFit(ints[i].rest) # <<>>
                          r == IF hasRest THEN w + 2 ELSE w + 1
                      IN  /\ r <= Len(steps)
                          /\ hasRest => IsRestStep(steps[w + 1])
                          /\ IsRepeatStep(steps[r])
                          /\ steps[r].targetValue = ints[i].count
                          /\ steps[r].durationValue = w - 1
                          /\ steps[r].durationValue < r - 1
            /\ (/\ Len(ints) = 1 /\ ints[1].count = 5 /\ ints[1].distance = 2000
                /\ ints[1].rest = "60s"
                /\ IsPlaceholderText(enc.session.warmup)
                /\ IsPlaceholderText(enc.session.cooldown))
                  => /\ Len(steps) = 3
                     /\ IsWorkStep(steps[1]) /\ IsRestStep(steps[2]) /\ IsRepeatStep(steps[3])
                     /\ steps[3].targetValue = 5 /\ steps[3].durationValue = 0

C6_Witness ==
    /\ Built
    /\ Len(enc.session.intervals) = 2
    /\ enc.session.type = "Threshold"
    /\ enc.session.intervals[1].count = 5 /\ enc.session.intervals[1].rest = "jog"
    /\ enc.session.intervals[1].distance = 2000
    /\ enc.session.intervals[2].count = 3
    /\ enc.session.warmup = "2km easy pace"
    /\ Len(FitSteps) = 7
    /\ FitSteps[3].durationValue = 1 /\ FitSteps[3].targetValue = 5
    /\ FitSteps[6].durationValue = 3 /\ FitSteps[6].targetValue = 3

\* C7: a session whose single interval has count 1 (or no count) and a
\* placeholder rest has exactly one step between warmup and cooldown and no
\* repeat step, and its text chunk is no "Nx[...]" block; a repeat step exists
\* only for an interval with count > 1.
C7_Singleton ==
    Built =>
        LET ints == enc.session.intervals
            steps == FitSteps
            mainSet == {k \in 1..Len(steps) : steps[k].intensity \notin {"warmup", "cooldown"}}
        IN  /\ (/\ Len(ints) = 1 /\ ints[1].count <= 1 /\ IsPlaceholderText(ints[1].rest))
                  => /\ Cardinality(mainSet) = 1
                     /\ \A k \in mainSet : IsWorkStep(steps[k])
                     /\ \A i \in 1..Len(enc.chunks) : ~Contains(enc.chunks[i], "x[")
            /\ (\A i \in 1..Len(ints) : ints[i].count <= 1)
                  => \A k \in 1..Len(steps) : ~IsRepeatStep(steps[k])
            /\ \A k \in 1..Len(steps) : IsRepeatStep(steps[k]) => steps[k].targetValue > 1

C7_Witness ==
    /\ Built
    /\ enc.session.type = "Long Run"
    /\ Len(enc.session.intervals) = 1
    /\ enc.session.intervals[1].count = 1 /\ enc.session.intervals[1].rest = "0"
    /\ enc.session.warmup = "Direct start"
    /\ Len(FitSteps) = 1 /\ FitSteps[1].wktStepName = "Run"

\* C8: the work step of an interval carries the interval's power range when
\* both power bounds are set; otherwise the session's heart-rate range when
\* useHeartRateTarget is set and both bounds are set; otherwise the speed
\* range parsed from the interval's pace; otherwise it is open.
C8_TargetPrecedence ==
    (Built /\ Len(enc.session.intervals) > 0) =>
        \A i \in 1..Len(enc.session.intervals) :
            LET int == enc.session.intervals[i]
                st == FitSteps[NthWork(FitSteps, i)]
                power == int.targetPowerLow # 0 /\ int.targetPowerHigh # 0
                hr == /\ enc.session.useHeartRateTarget
                      /\ enc.session.targetHrLow # 0 /\ enc.session.targetHrHigh # 0
                speed == parsePaceRangeToSpeedRaw(int.pace)
            IN  /\ power => /\ st.targetType = "power"
                            /\ st.customTargetValueLow = int.targetPowerLow
                            /\ st.customTargetValueHigh = int.targetPowerHigh
                /\ (~power /\ hr) => /\ st.targetType = "heartRate"
                                     /\ st.customTargetValueLow = enc.session.targetHrLow
                                     /\ st.customTargetValueHigh = enc.session.targetHrHigh
                /\ (~power /\ ~hr /\ speed # <<>>)
                      => /\ st.targetType = "speed"
                         /\ st.customTargetValueLow = speed[1].low
                         /\ st.customTargetValueHigh = speed[1].high
                /\ (~power /\ ~hr /\ speed = <<>>) => st.targetType = "open"

C8_Witness ==
    /\ Built
    /\ enc.session.useHeartRateTarget /\ enc.session.targetHrLow = 130
    /\ enc.session.targetHrHigh = 145
    /\ Len(enc.session.intervals) = 1
    /\ enc.session.intervals[1].targetPowerLow = 230
    /\ enc.session.intervals[1].targetPowerHigh = 245
    /\ enc.session.intervals[1].pace = "4:32-4:10/km"
    /\ FitSteps[2].targetType = "power"
    /\ FitSteps[2].customTargetValueLow = 230 /\ FitSteps[2].customTargetValueHigh = 245

FirstLine(text) ==
    LET breaks == {i \in 1..Len(text) : Ch(text, i) = "\n"}
    IN  IF breaks = {} THEN text
        ELSE SubSeq(text, 1, (CHOOSE i \in breaks : \A j \in breaks : i <= j) - 1)

\* "SubT {reps}x{label}": the label is the duration in whole minutes as
\* "M:00" when the interval has a duration, else the distance in km with one
\* decimal from 1000 m on, else the distance in whole metres.
SubTTitle(first) ==
    LET reps == IF first.count >= 1 THEN first.count ELSE 1
        tenths == (first.distance + 50) \div 100
        label == IF first.durationSec > 0
                 THEN ToString(IF first.durationSec < 90 THEN 1
                               ELSE (first.durationSec + 30) \div 60) \o ":00"
                 ELSE IF first.distance >= 1000
                 THEN ToString(tenths \div 10)
                         \o (IF tenths % 10 = 0 THEN "" ELSE "." \o ToString(tenths % 10))
                         \o "km"
                 ELSE ToString(first.distance) \o "m"
    IN  "SubT " \o ToString(reps) \o "x" \o label

\* C9: for a Threshold session with an interval, the payload name, the first
\* line of the text and the FIT workout name are the "SubT {reps}x{label}"
\* title of the first interval, whatever the stored title; for any other
\* session all three are the stored title.
C9_ThresholdTitle ==
    Built =>
        LET s == enc.session
            expected == IF s.type = "Threshold" /\ Len(s.intervals) > 0
                        THEN SubTTitle(s.intervals[1])
                        ELSE s.title
        IN  /\ enc.payload.name = expected
            /\ FirstLine(enc.payload.description) = expected
            /\ enc.payload.fit.wktName = expected

C9_Witness ==
    /\ Built
    /\ enc.session.type = "Threshold" /\ enc.session.title = "My session"
    /\ Len(enc.session.intervals) = 1
    /\ enc.session.intervals[1].count = 8 /\ enc.session.intervals[1].distance = 1500
    /\ enc.payload.name = "SubT 8x1.5km"
    /\ enc.payload.fit.wktName = "SubT 8x1.5km"
    /\ FirstLine(enc.payload.description) = "SubT 8x1.5km"

----------------------------------------------------------------------------
(* The plan machine: a profile is edited into place, then the "generate"   *)
(* handler runs generatePlan on it                                         *)

PlanIdle == <<>>

\* The number of leading weekdays whose day type and sport vary; the other
\* days are Rest days.
MaxSchedDays == 3

DayTypes == {"Rest", "Easy Run", "Threshold", "Long Run"}

\* Schedules, keys in the order Monday .. Sunday.
PlanSchedules ==
    { [i \in 1..Len(dayOrder) |->
          <<dayOrder[i], IF i <= MaxSchedDays THEN t[i] ELSE "Rest">>] :
      t \in [1..MaxSchedDays -> DayTypes] }

\* Per-day sports: every day a run, one bike day, or every varied day a bike day.
PlanSports ==
    LET Bike(days) == [d \in days |-> "bike"]
    IN  {Bike({})} \cup {Bike({dayOrder[i]}) : i \in 1..MaxSchedDays}
            \cup {Bike({dayOrder[i] : i \in 1..MaxSchedDays})}

\* Weekly volumes, metres.
PlanVolumes == {0, 30000, 47000, 90000}

\* Warmup and cooldown distances (metres) with a functional threshold power.
PlanBuffers == {<<2000, 1000, 250>>, <<1500, 0, 0>>}

\* 5000 m benchmarks with the weather correction in force, seconds per km.
PlanBenchmarks == {<<"19:07", 0>>, <<"25:30", 12>>, <<"", 0>>}

InitPlan ==
    /\ WeatherIdle /\ SyncIdle
    /\ calc = CalcIdle
    /\ enc = EncIdle /\ clock = ClockIdle /\ pace = PaceIdle
    /\ plan = PlanIdle
    /\ \E schedule \in PlanSchedules, sports \in PlanSports, volume \in PlanVolumes,
          buffers \in PlanBuffers, benchmark \in PlanBenchmarks :
          /\ profile = <<[raceDistance |-> 5000, raceTime |-> benchmark[1],
                          raceDistance2 |-> 0, raceTime2 |-> "",
                          ftp |-> buffers[3], weeklyVolume |-> volume,
                          warmupDist |-> buffers[1], cooldownDist |-> buffers[2],
                          schedule |-> schedule, scheduleSport |-> sports]>>
          /\ correctionSec = benchmark[2]

\* normalizeTo5kProfile(profile)
normalizeTo5kProfile(p) == [p EXCEPT !.raceDistance = 5000]

\* handleGeneratePlan: the profile is normalised, the plan generated from it
\* with the weather correction, and both are stored.
GeneratePlan ==
    /\ profile # <<>>
    /\ profile' = <<normalizeTo5kProfile(profile[1])>>
    /\ \E ties \in RoundingTies :
          plan' = <<generatePlan(normalizeTo5kProfile(profile[1]), correctionSec, ties)>>
    /\ UNCHANGED <<correctionSec, enc, clock, pace, calc, weather, weatherStatus, fetches, icu, week>>

\* One generation per drawn profile: generatePlan reads nothing but its
\* arguments, so a second click gives the plans the first one can give.
NextPlan == plan = PlanIdle /\ GeneratePlan

SpecPlan == InitPlan /\ [][NextPlan]_vars

----------------------------------------------------------------------------
(* Properties of the synthesizer                                           *)

Generated == plan # PlanIdle

\* The number of Easy days of the profile's schedule.
EasyDayCount == Len(daysOfType(profile[1].schedule, "Easy Run"))

\* The sessions of the generated plan whose day has the given type.
SessionsOfDayType(type) ==
    { plan[1].days[i].session[1] :
        i \in { j \in 1..Len(plan[1].days) :
                  plan[1].days[j].type = type /\ plan[1].days[j].session # <<>> } }

\* The sessions of the generated plan of the given workout type.
SessionsOfType(type) ==
    { plan[1].days[i].session[1] :
        i \in { j \in 1..Len(plan[1].days) :
                  /\ plan[1].days[j].session # <<>>
                  /\ plan[1].days[j].session[1].type = type } }

\* |totalDistance - weeklyVolume| <= 0.1 km x (number of Easy days)
WithinBudget ==
    Abs(plan[1].totalDistance - profile[1].weeklyVolume) <= 100 * EasyDayCount

C2_LongRunDominance ==
    Generated =>
        \A l \in SessionsOfDayType("Long Run"), t \in SessionsOfDayType("Threshold") :
            l.distance >= t.distance

----------------------------------------------------------------------------
(* The pace calculator machine: a profile's benchmark is in place, then    *)
(* one function of the pace model is applied to it                         *)

\* Primary results <<raceDistance, raceTime>>: three ordinary 5000 m results,
\* results at and just beyond 30 s of one hour, an empty and a negative race
\* time and a zero distance.
CalcBenchmarks ==
    {<<5000, "19:07">>, <<5000, "21:40">>, <<5000, "25:30">>, <<5000, "59:30">>,
     <<5000, "59:29">>, <<5000, "1:00:30">>, <<5000, "1:00:31">>, <<5000, "">>,
     <<5000, "-5:00">>, <<0, "19:07">>}

\* Second results <<raceDistance2, raceTime2>>; <<0, "">> is none.
CalcSecondResults ==
    {<<0, "">>, <<10000, "40:00">>, <<10000, "1:10:00">>, <<10000, "19:07">>,
     <<10000, "">>, <<5000, "25:00">>, <<3000, "30:00">>}

\* Pace corrections, seconds per km.
CalcCorrections == {-5, 0, 12}

\* Rep distances, metres: both sides of every row boundary of the table.
RepDistances == {400, 450, 451, 650, 651, 850, 851, 1000, 1001, 2000, 2001, 3000, 3500, 3501, 5000}

\* Target distances, metres, from the benchmark distance upwards.
TargetDists == {5000, 6000, 8000, 10000, 15000, 21097, 30000, 42195}

InitCalc ==
    /\ WeatherIdle /\ SyncIdle
    /\ enc = EncIdle /\ clock = ClockIdle /\ pace = PaceIdle
    /\ plan = PlanIdle
    /\ calc = [pc |-> "ready"]
    /\ correctionSec \in CalcCorrections
    /\ \E first \in CalcBenchmarks, second \in CalcSecondResults :
          profile = <<[raceDistance |-> first[1], raceTime |-> first[2],
                       raceDistance2 |-> second[1], raceTime2 |-> second[2],
                       ftp |-> 0, weeklyVolume |-> 0,
                       warmupDist |-> 0, cooldownDist |-> 0,
                       schedule |-> [i \in 1..Len(dayOrder) |-> <<dayOrder[i], "Rest">>],
                       scheduleSport |-> <<>>]>>

\* getIntervalPaceRange(profile, dist, correctionSec), for two rep distances.
IntervalPaceRange ==
    /\ calc.pc = "ready"
    /\ \E d1 \in RepDistances, d2 \in RepDistances :
          /\ d1 <= d2
          /\ calc' = [pc |-> "interval", dists |-> <<d1, d2>>,
                      outs |-> <<getIntervalPaceRange(profile[1], d1, correctionSec),
                                 getIntervalPaceRange(profile[1], d2, correctionSec)>>]
    /\ UNCHANGED <<profile, correctionSec, plan, enc, clock, pace, weather, weatherStatus, fetches, icu, week>>

\* calculateThresholdPace(profile.raceDistance, profile.raceTime, profile)
ThresholdPace ==
    /\ calc.pc = "ready"
    /\ calc' = [pc |-> "threshold",
                out |-> calculateThresholdPace(profile[1].raceDistance,
                                               profile[1].raceTime, profile)]
    /\ UNCHANGED <<profile, correctionSec, plan, enc, clock, pace, weather, weatherStatus, fetches, icu, week>>

\* calculatePaceForDistance(raceDistance, raceTime, target), for two targets.
PaceForDistance ==
    /\ calc.pc = "ready"
    /\ \E t1 \in TargetDists, t2 \in TargetDists :
          /\ t1 <= t2
          /\ calc' = [pc |-> "pace", targets |-> <<t1, t2>>,
                      outs |-> <<calculatePaceForDistance(profile[1].raceDistance,
                                                          profile[1].raceTime, t1),
                                 calculatePaceForDistance(profile[1].raceDistance,
                                                          profile[1].raceTime, t2)>>]
    /\ UNCHANGED <<profile, correctionSec, plan, enc, clock, pace, weather, weatherStatus, fetches, icu, week>>

\* getRaceEquivalentPaces(profile)
RaceEquivalentPaces ==
    /\ calc.pc = "ready"
    /\ calc' = [pc |-> "equivalent", out |-> getRaceEquivalentPaces(profile[1])]
    /\ UNCHANGED <<profile, correctionSec, plan, enc, clock, pace, weather, weatherStatus, fetches, icu, week>>

\* Conditions in tenths: degrees Celsius, per cent, km/h.
WeatherTemperatures == {0 - 400, 0 - 100, 0, 49, 50, 85, 120, 121, 125, 179, 180, 300, 450, 600}
WeatherHumidities == {0, 600, 601, 650, 800, 1000}
WeatherWinds == {0, 50, 120, 121, 125, 300, 1000}
\* Base paces, ms per km.
WeatherBasePaces == {0 - 240000, 0, 229400}

\* getWeatherPaceDeltaSeconds on one set of conditions, and on the same
\* conditions in dry air.
WeatherPaceDelta ==
    /\ calc.pc = "conditions"
    /\ \E base \in WeatherBasePaces, t \in WeatherTemperatures, h \in WeatherHumidities, w \in WeatherWinds :
          calc' = [pc |-> "weather", base |-> base, temperature |-> t, humidity |-> h, wind |-> w,
                   out |-> getWeatherPaceDeltaSeconds(base, t, h, w),
                   dry |-> getWeatherPaceDeltaSeconds(base, t, 0, w)]
    /\ UNCHANGED <<profile, correctionSec, plan, enc, clock, pace, weather, weatherStatus, fetches, icu, week>>

NextCalc == IntervalPaceRange \/ ThresholdPace \/ PaceForDistance \/ RaceEquivalentPaces

SpecCalc == InitCalc /\ [][NextCalc]_vars

----------------------------------------------------------------------------
(* Properties of the pace model                                            *)

\* The row of the interval pace table a rep distance falls in: the
\* race-equivalent pace it is anchored on, the offset (ms) and the label.
IntervalRow(d) ==
    IF d <= 450 THEN [anchor |-> "p15k", offset |-> 9000, effort |-> "400m Pace"]
    ELSE IF d <= 650 THEN [anchor |-> "p15k", offset |-> 6000, effort |-> "600m Pace"]
    ELSE IF d <= 850 THEN [anchor |-> "p15k", offset |-> 3000, effort |-> "800m Pace"]
    ELSE IF d <= 1000 THEN [anchor |-> "p15k", offset |-> 0, effort |-> "1K Pace"]
    ELSE IF d <= 2000 THEN [anchor |-> "pHalf", offset |-> 0, effort |-> "Half Marathon Pace"]
    ELSE IF d <= 3500 THEN [anchor |-> "p30k", offset |-> 0, effort |-> "30K Pace"]
    ELSE [anchor |-> "pMarathon", offset |-> 0, effort |-> "Marathon Pace"]

\* The text of the band [p, p + 10 s].
TenSecondBand(p) == secondsToTime(p) \o "-" \o secondsToTime(p + 10000)

\* The table's answer for a rep distance: the row's pace and label, or the
\* raw 60-minute threshold pace labelled "Subthreshold Pace" when the row's
\* race-equivalent pace is undeterminable, as the band after the correction.
TableRange(prof, d, corr) ==
    LET Answer(row, rowPace) ==
            IF rowPace > 0
            THEN [range |-> TenSecondBand(applyPaceCorrection(rowPace - row.offset, corr)),
                  effort |-> row.effort]
            ELSE [range |-> TenSecondBand(applyPaceCorrection(get60MinThresholdPace(prof),
                                                              corr)),
                  effort |-> "Subthreshold Pace"]
    IN  Answer(IntervalRow(d), getRaceEquivalentPaces(prof)[IntervalRow(d).anchor])

C12_ThresholdModelSelection ==
    LET Selected(d1, t1, d2, t2) ==
            IF d2 > d1 /\ d1 > 0 /\ t2 > t1 /\ t1 > 0
            THEN calc.out = MulDivRound(1010000, t2 - t1, d2 - d1)
            ELSE IF d1 = 0 \/ t1 = 0 THEN calc.out = 0
            ELSE IF Abs(t1 - 3600) <= 30 THEN calc.out = MulDivRound(t1 * 1000, 1000, d1)
            ELSE calc.out = MulDivRound(3600000, 10000, distAt60(d1, t1))
    IN  calc.pc = "threshold" =>
            Selected(profile[1].raceDistance, timeToSeconds(profile[1].raceTime),
                     profile[1].raceDistance2, timeToSeconds(profile[1].raceTime2))

C12_Witness ==
    /\ calc.pc = "threshold"
    /\ profile[1].raceDistance = 5000 /\ profile[1].raceTime = "59:30"
    /\ profile[1].raceDistance2 = 10000 /\ profile[1].raceTime2 = "1:10:00"
    /\ calc.out = 127260

\* The lower bound of a pace band text "m:ss-m:ss", whole seconds.
BandLow(range) == timeToSeconds(Split(range, "-")[1])

\* The primary result of the profile is a positive distance in a positive time.
PositiveBenchmark == profile[1].raceDistance > 0 /\ timeToSeconds(profile[1].raceTime) > 0

\* C18: for a benchmark with d > 0 and t > 0, calculatePaceForDistance is
\* non-decreasing in the target distance from d upwards; the race-equivalent
\* paces are ordered 15K <= half marathon <= 30K <= marathon; and the pace of a
\* 400 m rep is faster than the pace of a 3000 m rep.
C18_PaceMonotonicity ==
    PositiveBenchmark =>
        /\ calc.pc = "pace" /\ profile[1].raceDistance <= calc.targets[1]
              => calc.outs[1] <= calc.outs[2]
        /\ calc.pc = "equivalent"
              => /\ calc.out.p15k <= calc.out.pHalf
                 /\ calc.out.pHalf <= calc.out.p30k
                 /\ calc.out.p30k <= calc.out.pMarathon
        /\ calc.pc = "interval" /\ calc.dists = <<400, 3000>>
              => BandLow(calc.outs[1].range) < BandLow(calc.outs[2].range)

C18_Witness ==
    /\ calc.pc = "pace"
    /\ profile[1].raceDistance = 5000 /\ profile[1].raceTime = "19:07"
    /\ calc.targets = <<5000, 42195>>
    /\ calc.outs = <<229400, 260718>>

\* The elements of a sequence.
Range(f) == { f[x] : x \in DOMAIN f }

----------------------------------------------------------------------------
(* The synthesizer applied as a function: generatePlan on a profile as it  *)
(* stands, without the normalisation of the "generate" handler             *)

\* Benchmarks <<raceDistance, raceTime>> without a derivable pace.
DegradedBenchmarks == {<<5000, "">>, <<0, "19:07">>, <<0, "">>}

\* Pace corrections handed to generatePlan, seconds per km.
SynthCorrections == {-5, 0, 20}

\* Weeks for the template rotation: every set of Threshold days, Sunday a
\* long run when it is not one of them, keys in the order Monday .. Sunday.
ThresholdWeeks ==
    { [i \in 1..Len(dayOrder) |->
          <<dayOrder[i], IF i \in days THEN "Threshold"
                         ELSE IF i = Len(dayOrder) THEN "Long Run" ELSE "Rest">>] :
      days \in SUBSET (1..Len(dayOrder)) }

\* The profile of a week: schedule, sports, benchmark and weekly volume.
SynthProfile(schedule, sports, benchmark, volume) ==
    [raceDistance |-> benchmark[1], raceTime |-> benchmark[2],
     raceDistance2 |-> 0, raceTime2 |-> "",
     ftp |-> 250, weeklyVolume |-> volume, warmupDist |-> 2000, cooldownDist |-> 1000,
     schedule |-> schedule, scheduleSport |-> sports]

InitSynth ==
    /\ WeatherIdle /\ SyncIdle
    /\ enc = EncIdle /\ clock = ClockIdle /\ pace = PaceIdle /\ calc = CalcIdle
    /\ plan = PlanIdle
    /\ \/ \E schedule \in PlanSchedules, sports \in PlanSports,
             benchmark \in DegradedBenchmarks :
             /\ profile = <<SynthProfile(schedule, sports, benchmark, 47000)>>
             /\ correctionSec \in SynthCorrections
       \/ \E schedule \in ThresholdWeeks, sports \in {<<>>, [d \in Range(dayOrder) |-> "bike"]} :
             /\ profile = <<SynthProfile(schedule, sports, <<5000, "19:07">>, 90000)>>
             /\ correctionSec = 0

\* generatePlan(profile, correctionSec)
ApplyGeneratePlan ==
    /\ plan = PlanIdle
    /\ \E ties \in RoundingTies :
          plan' = <<generatePlan(profile[1], correctionSec, ties)>>
    /\ UNCHANGED <<profile, correctionSec, enc, clock, pace, calc, weather, weatherStatus, fetches, icu, week>>

NextSynth == ApplyGeneratePlan

SpecSynth == InitSynth /\ [][NextSynth]_vars

----------------------------------------------------------------------------
(* Properties of the synthesizer as a function                             *)

\* The benchmark of the profile gives no pace.
Degraded == profile[1].raceTime = "" \/ profile[1].raceDistance = 0

\* The sessions of the generated plan, the variants of each included.
RenderedSessions ==
    UNION { {plan[1].days[i].session[1]} \cup Range(plan[1].days[i].session[1].variants) :
            i \in { j \in 1..Len(plan[1].days) : plan[1].days[j].session # <<>> } }

\* Every bound of a pace text reads "0:00".
ZeroPaceText(text) == \A b \in Range(Split(text, "-")) : b = "0:00"

\* C13: for a profile with an empty race time or a zero race distance,
\* generatePlan still returns a session for every Threshold, Long Run and Easy
\* day, and every pace it renders (each bound of every interval pace that is
\* given, and the pace band of the easy-run description) reads "0:00", for
\* every correction.
C13_SilentDegradation ==
    (Generated /\ Degraded) =>
        /\ \A i \in 1..Len(plan[1].days) :
              plan[1].days[i].type \in {"Threshold", "Long Run", "Easy Run"}
                  => plan[1].days[i].session # <<>>
        /\ \A s \in RenderedSessions :
              /\ \A j \in 1..Len(s.intervals) :
                    s.intervals[j].pace # "" => ZeroPaceText(s.intervals[j].pace)
              /\ (s.type = "Easy" /\ s.sport = "run")
                    => s.description = "Target Pace: 0:00-0:00/km"

C13_Witness ==
    /\ Generated
    /\ profile[1].raceDistance = 0 /\ profile[1].raceTime = "19:07"
    /\ correctionSec = 20
    /\ plan[1].days[1].type = "Threshold" /\ plan[1].days[2].type = "Long Run"
    /\ plan[1].days[3].type = "Easy Run"
    /\ plan[1].days[1].session # <<>>
    /\ plan[1].days[1].session[1].sport = "run"
    /\ plan[1].days[1].session[1].intervals[1].pace = "0:00-0:00"
    /\ plan[1].days[2].session # <<>>
    /\ Len(plan[1].days[2].session[1].variants) = 3
    /\ plan[1].days[3].session # <<>>

\* The number of Threshold days of the plan before day i, Monday first.
ThresholdDaysBefore(i) == Cardinality({ j \in 1..(i - 1) : plan[1].days[j].type = "Threshold" })

\* C20: the k-th Threshold day of the week, counted from 0 in the order
\* Monday .. Sunday, is built from template k mod 3 of (5 x 2000 m / 60 s,
\* 8 x 1000 m / 60 s, 3 x 3000 m / 90 s) whatever its name, and a run session's
\* distance is the distance counted for that day in the threshold budget.
C20_TemplateRotation ==
    LET FromTemplate(s, tpl, counted) ==
            /\ Len(s.intervals) = 1
            /\ s.intervals[1].count = tpl.reps
            /\ s.sport = "run" =>
                  /\ s.intervals[1].distance = tpl.dist
                  /\ s.intervals[1].rest = tpl.rest
                  /\ s.title = formatThresholdSessionTitle(tpl.reps, tpl.dist)
                  /\ s.distance = profile[1].warmupDist + profile[1].cooldownDist
                                     + tpl.reps * tpl.dist
                  /\ s.distance = counted
    IN  Generated =>
            \A i \in 1..Len(plan[1].days) :
                plan[1].days[i].type = "Threshold" =>
                    /\ plan[1].days[i].session # <<>>
                    /\ FromTemplate(
                           plan[1].days[i].session[1],
                           thresholdTemplates[(ThresholdDaysBefore(i) % 3) + 1],
                           thresholdSessionDists(
                               daysOfType(profile[1].schedule, "Threshold"),
                               profile[1].warmupDist,
                               profile[1].cooldownDist)[ThresholdDaysBefore(i) + 1])

\* A week whose fourth Threshold day, a Friday, is back on the first template.
C20_Witness ==
    /\ Generated
    /\ \A i \in {1, 2, 4, 5} : plan[1].days[i].type = "Threshold"
    /\ plan[1].days[3].type = "Rest"
    /\ plan[1].days[5].session[1].sport = "run"
    /\ plan[1].days[5].session[1].title = "SubT 5x2km"
    /\ plan[1].days[4].session[1].title = "SubT 3x3km"

----------------------------------------------------------------------------
(* The weather machine: fetchWeather and its callbacks, the correction     *)
(* derived from the snapshot, and the "generate" handler that is given it  *)

\* The number of fetchWeather calls of a behaviour, and of fetches under way
\* at one time.
MaxFetches == 3
MaxFlights == 2

\* Snapshots <<temperatureC, dewPointC, humidityPct, windKmh>>, in tenths.
WeatherSnapshots ==
    {<<100, 50, 500, 50>>, <<300, 260, 800, 200>>, <<210, 70, 400, 0>>, <<-30, -40, 900, 100>>}

\* What the forecast request can end in: a thrown network error, a response
\* that is not ok, a body that is not JSON, and a body whose `current` has
\* each of the four values as a number (<<v>>) or not at all (<<>>).
WeatherReplies ==
    {[kind |-> "throw"], [kind |-> "response", ok |-> FALSE],
     [kind |-> "response", ok |-> TRUE, json |-> FALSE]}
    \cup {[kind |-> "response", ok |-> TRUE, json |-> TRUE,
           current |-> <<<<w[1]>>, <<w[2]>>, <<w[3]>>, <<w[4]>>>>] : w \in WeatherSnapshots}
    \cup {[kind |-> "response", ok |-> TRUE, json |-> TRUE,
           current |-> <<<<210>>, <<70>>, <<400>>, <<>>>>],
          [kind |-> "response", ok |-> TRUE, json |-> TRUE,
           current |-> <<<<>>, <<>>, <<>>, <<>>>>]}

\* const weatherPaceDeltaSec = weather ? getWeatherPaceDeltaSeconds(...) : 0,
\* with currentThreshold = calculateThresholdPace(raceDistance, raceTime, profile).
weatherPaceDeltaSec(prof, snapshot) ==
    IF snapshot = <<>> THEN 0
    ELSE getWeatherPaceDeltaSeconds(
             calculateThresholdPace(prof.raceDistance, prof.raceTime, <<prof>>),
             snapshot[1].temperatureC, snapshot[1].humidityPct, snapshot[1].windKmh)

\* s without its i-th element.
RemoveAt(s, i) == SubSeq(s, 1, i - 1) \o SubSeq(s, i + 1, Len(s))

\* The week of the weather machine: an Easy, a Threshold and a Long Run day.
WeatherSchedule ==
    [i \in 1..Len(dayOrder) |->
        <<dayOrder[i], IF i = 1 THEN "Easy Run" ELSE IF i = 2 THEN "Threshold"
                       ELSE IF i = Len(dayOrder) THEN "Long Run" ELSE "Rest">>]

InitWeather ==
    /\ enc = EncIdle /\ clock = ClockIdle /\ pace = PaceIdle /\ calc = CalcIdle
    /\ plan = PlanIdle
    /\ \E raceTime \in {"19:07", "25:30", ""} :
          profile = <<[raceDistance |-> 5000, raceTime |-> raceTime,
                       raceDistance2 |-> 0, raceTime2 |-> "",
                       ftp |-> 0, weeklyVolume |-> 47000,
                       warmupDist |-> 2000, cooldownDist |-> 1000,
                       schedule |-> WeatherSchedule, scheduleSport |-> <<>>]>>
    /\ weather = <<>> /\ weatherStatus = "idle" /\ fetches = FetchesIdle
    /\ correctionSec = 0
    /\ SyncIdle

\* fetchWeather(), up to the call of getCurrentPosition.
FetchWeather ==
    /\ fetches.started < MaxFetches
    /\ Len(fetches.flights) < MaxFlights
    /\ \E geolocation \in BOOLEAN :
          IF ~geolocation
          THEN /\ weatherStatus' = "blocked"
               /\ fetches' = [fetches EXCEPT !.started = @ + 1, !.last = "failed"]
          ELSE /\ weatherStatus' = "loading"
               /\ fetches' = [fetches EXCEPT !.started = @ + 1,
                                             !.flights = Append(@, "locating")]
    /\ UNCHANGED <<profile, correctionSec, plan, enc, clock, pace, calc, weather, icu, week>>

\* The error callback of getCurrentPosition.
PositionDenied ==
    /\ \E i \in 1..Len(fetches.flights) :
          /\ fetches.flights[i] = "locating"
          /\ fetches' = [fetches EXCEPT !.flights = RemoveAt(@, i), !.last = "failed"]
    /\ weatherStatus' = "blocked"
    /\ UNCHANGED <<profile, correctionSec, plan, enc, clock, pace, calc, weather, icu, week>>

\* The success callback of getCurrentPosition, up to `await fetch(url)`.
PositionFound ==
    /\ \E i \in 1..Len(fetches.flights) :
          /\ fetches.flights[i] = "locating"
          /\ fetches' = [fetches EXCEPT !.flights[i] = "requesting"]
    /\ UNCHANGED <<profile, correctionSec, plan, enc, clock, pace, calc, weather, weatherStatus, icu, week>>

\* The rest of the success callback: the reply is checked and parsed, and
\* either the snapshot is stored with status 'ready' or the status becomes
\* 'error'.  The component then renders with the correction of its state.
WeatherReply ==
    /\ \E i \in 1..Len(fetches.flights), reply \in WeatherReplies :
          /\ fetches.flights[i] = "requesting"
          /\ IF /\ reply.kind = "response" /\ reply.ok /\ reply.json
                /\ \A k \in 1..4 : reply.current[k] # <<>>
             THEN /\ weather' = <<[temperatureC |-> reply.current[1][1],
                                   dewPointC |-> reply.current[2][1],
                                   humidityPct |-> reply.current[3][1],
                                   windKmh |-> reply.current[4][1]]>>
                  /\ weatherStatus' = "ready"
                  /\ fetches' = [fetches EXCEPT !.flights = RemoveAt(@, i), !.last = "ok"]
             ELSE /\ weather' = weather
                  /\ weatherStatus' = "error"
                  /\ fetches' = [fetches EXCEPT !.flights = RemoveAt(@, i),
                                                !.last = "failed"]
    /\ correctionSec' = weatherPaceDeltaSec(profile[1], weather')
    /\ UNCHANGED <<profile, plan, enc, clock, pace, calc, icu, week>>

NextWeather == FetchWeather \/ PositionDenied \/ PositionFound \/ WeatherReply \/ GeneratePlan

SpecWeather == InitWeather /\ [][NextWeather]_vars

----------------------------------------------------------------------------
(* Properties of the weather machine                                       *)

\* C17 as stated: whenever the fetch that ended last failed, and whenever
\* there is no weather data, the correction handed to plan generation and to
\* the pace display is 0.
C17_WeatherFailureNoCorrection ==
    (fetches.last = "failed" \/ weather = <<>>) => correctionSec = 0

----------------------------------------------------------------------------
(* Intervals.icu service: syncWorkoutToIcu and syncWorkoutsBulkToIcu       *)
(*                                                                         *)
(* A JSON value is a record tagged by t: "str" (s), "num" (n), "null",     *)
(* "array" (items) or "object" (message, error, detail, id, external_id,   *)
(* each <<>> when the key is absent and <<value>> otherwise).  A response  *)
(* body is its text together with what JSON.parse makes of it (<<>> for a  *)
(* SyntaxError); an unreadable body is one whose text() rejects.           *)

JsStr(s) == [t |-> "str", s |-> s]
JsNum(n) == [t |-> "num", n |-> n]
JsNull == [t |-> "null"]
JsArray(items) == [t |-> "array", items |-> items]
JsObject(message, error, detail, id, external_id) == [t |-> "object", message |-> message, error |-> error, detail |-> detail, id |-> id, external_id |-> external_id]

\* v?.key for the keys the service reads: undefined unless v is an object.
Member(v, key) ==
    IF v = <<>> \/ v[1].t # "object" THEN <<>>
    ELSE CASE key = "message" -> v[1].message
           [] key = "error" -> v[1].error
           [] key = "detail" -> v[1].detail
           [] key = "id" -> v[1].id
           [] key = "external_id" -> v[1].external_id

\* JavaScript truthiness of an optional JSON value.
Truthy(v) ==
    /\ v # <<>>
    /\ CASE v[1].t = "str" -> v[1].s # ""
         [] v[1].t = "num" -> v[1].n # 0
         [] v[1].t = "null" -> FALSE
         [] OTHER -> TRUE

\* a || b
OrElse(a, b) == IF Truthy(a) THEN a ELSE b

\* String(v) of a string or an integer (the values the reply bodies below
\* give to message, error, detail and external_id).
StringOf(v) == IF v[1].t = "str" THEN v[1].s ELSE ToString(v[1].n)

\* Number(v): <<n>>, or <<>> for NaN.  undefined, objects and texts that are
\* not digits give NaN; null and the blank text give 0.
JsNumber(v) ==
    IF v = <<>> THEN <<>>
    ELSE CASE v[1].t = "num" -> <<v[1].n>>
           [] v[1].t = "null" -> <<0>>
           [] v[1].t = "str" ->
                IF Trim(v[1].s) = "" THEN <<0>>
                ELSE IF AllDigits(Trim(v[1].s)) THEN <<DigitsValue(Trim(v[1].s))>>
                ELSE <<>>
           [] OTHER -> <<>>

\* The fallback text with the status: `${fallback} (${response.status})`.
fallbackMessage(response, fallback) == fallback \o " (" \o ToString(response.status) \o ")"

\* A variant whose fallback is the raw text even when it is empty.
extractErrorMessageRawOnly(response, fallback) ==
    IF response.body.readable THEN response.body.text ELSE ""

\* extractErrorMessage(response, fallback)
extractErrorMessage(response, fallback) ==
    LET raw == IF response.body.readable THEN response.body.text ELSE ""
        data == response.body.json
        msg == OrElse(Member(data, "message"), OrElse(Member(data, "error"), Member(data, "detail")))
    IN  IF raw = "" THEN fallbackMessage(response, fallback)
        ELSE IF data # <<>> /\ Truthy(msg) THEN StringOf(msg)
        ELSE raw

\* parseSuccessJson(response) once the text is read: <<>> is null.
parseSuccessJson(response) ==
    IF Trim(response.body.text) = "" THEN <<>> ELSE response.body.json

\* A variant that never falls back to the id the session carries.
resolveEventIdParsedOnly(parsed, existingId) ==
    IF JsNumber(Member(parsed, "id")) # <<>> /\ JsNumber(Member(parsed, "id"))[1] > 0
    THEN JsNumber(Member(parsed, "id"))
    ELSE <<>>

\* resolveEventId(parsed, existingId): <<>> is null, existingId 0 is undefined.
resolveEventId(parsed, existingId) ==
    IF JsNumber(Member(parsed, "id")) # <<>> /\ JsNumber(Member(parsed, "id"))[1] > 0
    THEN JsNumber(Member(parsed, "id"))
    ELSE IF existingId > 0 THEN <<existingId>>
    ELSE <<>>

\* parseAndResolveSuccessId(response, existingId)
parseAndResolveSuccessId(response, existingId) ==
    IF response.body.readable
    THEN resolveEventId(parseSuccessJson(response), existingId)
    ELSE IF existingId # 0 THEN <<existingId>> ELSE <<>>

\* In the texts of API keys "?" stands for a character above U+00FF, on
\* which btoa throws an InvalidCharacterError.
btoaThrows(text) == \E i \in 1..Len(text) : Ch(text, i) = "?"

\* The value a catch block reports: the message of an Error, else the text
\* given.  A thrown value is <<message>> for an Error and <<>> otherwise.
caughtMessage(thrown, otherwise) == IF thrown # <<>> THEN thrown[1] ELSE otherwise

\* The error response.json() / response.text() rejects with.
bodyError(response) ==
    IF response.body.readable THEN <<"Unexpected end of JSON input">>
    ELSE <<"body stream already read">>

\* The map eventIdsByExternalId as the sequence of its <<key, value>>
\* properties; an assignment to a key the map has keeps the key's place.
MapSet(map, key, value) ==
    IF \E i \in 1..Len(map) : map[i][1] = key
    THEN [i \in 1..Len(map) |-> IF map[i][1] = key THEN <<key, value>> ELSE map[i]]
    ELSE Append(map, <<key, value>>)

\* map[key], 0 for undefined.
MapGet(map, key) ==
    IF \E i \in 1..Len(map) : map[i][1] = key
    THEN (CHOOSE p \in Range(map) : p[1] = key)[2]
    ELSE 0

\* The loop over the response array of syncWorkoutsBulkToIcu.
RECURSIVE bulkEventIds(_, _)
bulkEventIds(arr, map) ==
    IF arr = <<>> THEN map
    ELSE LET externalId == IF Truthy(Member(<<Head(arr)>>, "external_id")) THEN StringOf(Member(<<Head(arr)>>, "external_id")) ELSE ""
             eventId == JsNumber(Member(<<Head(arr)>>, "id"))
         IN  bulkEventIds(Tail(arr),
                 IF externalId # "" /\ eventId # <<>> /\ eventId[1] > 0
                 THEN MapSet(map, externalId, eventId[1])
                 ELSE map)

NotConnected == "Intervals.icu is not connected."

\* The guard of syncWorkoutToIcu.
singleGuard(config) == config.connected /\ config.athleteId # "" /\ config.apiKey # ""

\* The guard of syncWorkoutsBulkToIcu.
bulkGuard(config) == config.connected /\ config.apiKey # ""

\* The request of syncWorkoutToIcu for a session with the given icuEventId.
singleRequest(config, icuEventId) ==
    [method |-> IF icuEventId # 0 THEN "PUT" ELSE "POST",
     url |-> "https://intervals.icu/api/v1/athlete/" \o config.athleteId \o "/events"
             \o (IF icuEventId # 0 THEN "/" \o ToString(icuEventId) ELSE "")]

\* The request of syncWorkoutsBulkToIcu.
bulkRequest ==
    [method |-> "POST", url |-> "https://intervals.icu/api/v1/athlete/0/events/bulk?upsert=true"]

\* syncWorkoutToIcu from the reply of fetch on: the IcuSyncResult.
\* status 0 stands for an absent status, error "" for an absent error.
syncWorkoutToIcuResult(icuEventId, reply) ==
    IF reply.kind = "throw"
    THEN [ok |-> FALSE, eventId |-> <<>>, status |-> 0,
          error |-> caughtMessage(reply.thrown, "Network error while syncing workout.")]
    ELSE IF ~reply.ok
    THEN [ok |-> FALSE, eventId |-> <<>>, status |-> reply.status,
          error |-> extractErrorMessage(reply, "Failed to sync workout to Intervals.icu")]
    ELSE [ok |-> TRUE, eventId |-> parseAndResolveSuccessId(reply, icuEventId),
          status |-> 0, error |-> ""]

\* syncWorkoutsBulkToIcu from the reply of fetch on: the IcuBulkSyncResult.
syncWorkoutsBulkToIcuResult(reply) ==
    IF reply.kind = "throw"
    THEN [ok |-> FALSE, eventIdsByExternalId |-> <<>>, status |-> 0,
          error |-> caughtMessage(reply.thrown, "Network error while bulk syncing workouts.")]
    ELSE IF ~reply.ok
    THEN [ok |-> FALSE, eventIdsByExternalId |-> <<>>, status |-> reply.status,
          error |-> extractErrorMessage(reply, "Failed to bulk sync workouts to Intervals.icu")]
    ELSE IF ~reply.body.readable \/ reply.body.json = <<>>
    THEN [ok |-> FALSE, eventIdsByExternalId |-> <<>>, status |-> 0,
          error |-> caughtMessage(bodyError(reply), "Network error while bulk syncing workouts.")]
    ELSE [ok |-> TRUE,
          eventIdsByExternalId |->
              bulkEventIds(IF reply.body.json[1].t = "array" THEN reply.body.json[1].items
                           ELSE <<>>, <<>>),
          status |-> 0, error |-> ""]

----------------------------------------------------------------------------
(* Service machine: one call, the reply of fetch, the settled promise      *)

IcuConfigs == [connected : BOOLEAN, athleteId : {"", "0", "i123"}, apiKey : {"", "k3y", "k?y"}]

\* icuEventId of the session handed over: 0 for a session never synced.
SessionEventIds == {0, 7}

TextBody(text, json) == [readable |-> TRUE, text |-> text, json |-> json]
UnreadableBody == [readable |-> FALSE, text |-> "", json |-> <<>>]
ObjectBody(text, message, error, detail, id) == TextBody(text, <<JsObject(message, error, detail, id, <<>>)>>)

ErrorBodies ==
    {UnreadableBody, TextBody("", <<>>), TextBody("Unauthorized", <<>>),
     TextBody("[]", <<JsArray(<<>>)>>), TextBody("null", <<JsNull>>),
     ObjectBody("{\"message\":\"Invalid API key\"}", <<JsStr("Invalid API key")>>, <<>>, <<>>, <<>>),
     ObjectBody("{\"error\":\"Forbidden\"}", <<>>, <<JsStr("Forbidden")>>, <<>>, <<>>),
     ObjectBody("{\"message\":\"\",\"error\":\"Bad request\"}", <<JsStr("")>>, <<JsStr("Bad request")>>, <<>>, <<>>),
     ObjectBody("{\"message\":null,\"detail\":429}", <<JsNull>>, <<>>, <<JsNum(429)>>, <<>>),
     ObjectBody("{\"status\":500}", <<>>, <<>>, <<>>, <<>>)}

EventBodies ==
    {UnreadableBody, TextBody("", <<>>), TextBody("  ", <<>>), TextBody("OK", <<>>),
     TextBody("null", <<JsNull>>), TextBody("42", <<JsNum(42)>>),
     TextBody("[{\"id\":42}]", <<JsArray(<<JsObject(<<>>, <<>>, <<>>, <<JsNum(42)>>, <<>>)>>)>>),
     ObjectBody("{}", <<>>, <<>>, <<>>, <<>>),
     ObjectBody("{\"id\":42}", <<>>, <<>>, <<>>, <<JsNum(42)>>),
     ObjectBody("{\"id\":\"43\"}", <<>>, <<>>, <<>>, <<JsStr("43")>>),
     ObjectBody("{\"id\":\"abc\"}", <<>>, <<>>, <<>>, <<JsStr("abc")>>),
     ObjectBody("{\"id\":0}", <<>>, <<>>, <<>>, <<JsNum(0)>>),
     ObjectBody("{\"id\":-3}", <<>>, <<>>, <<>>, <<JsNum(0 - 3)>>),
     ObjectBody("{\"id\":null}", <<>>, <<>>, <<>>, <<JsNull>>)}

\* One entry of a bulk response.
Entry(external_id, id) == JsObject(<<>>, <<>>, <<>>, id, external_id)

BulkBodies ==
    {UnreadableBody, TextBody("", <<>>), TextBody("<html>", <<>>),
     ObjectBody("{}", <<>>, <<>>, <<>>, <<>>),
     TextBody("[]", <<JsArray(<<>>)>>),
     TextBody("[{a:5},{b:6}]", <<JsArray(<<Entry(<<JsStr("a")>>, <<JsNum(5)>>), Entry(<<JsStr("b")>>, <<JsNum(6)>>)>>)>>),
     TextBody("[{a:5},{a:6}]", <<JsArray(<<Entry(<<JsStr("a")>>, <<JsNum(5)>>), Entry(<<JsStr("a")>>, <<JsNum(6)>>)>>)>>),
     TextBody("[{a:0},{:6},null,{7:\"8\"}]", <<JsArray(<<Entry(<<JsStr("a")>>, <<JsNum(0)>>), Entry(<<>>, <<JsNum(6)>>), JsNull, Entry(<<JsNum(7)>>, <<JsStr("8")>>)>>)>>)}

\* What fetch can do: reject with an Error (a TypeError, with its message)
\* or with another value, or resolve to a response.
ThrownValues == {<<"Failed to fetch">>, <<>>}

Replies(bodies) ==
    [kind : {"throw"}, thrown : ThrownValues]
    \cup [kind : {"response"}, ok : {FALSE}, status : {401, 500}, body : ErrorBodies]
    \cup [kind : {"response"}, ok : {TRUE}, status : {200}, body : bodies]

IcuReady == [pc |-> "ready"]

InitIcu ==
    /\ WeatherIdle
    /\ calc = CalcIdle /\ enc = EncIdle /\ clock = ClockIdle /\ pace = PaceIdle
    /\ profile = <<>> /\ correctionSec = 0 /\ plan = PlanIdle
    /\ icu = IcuReady
    /\ week = WeekIdle

\* A call up to its first await: the guard, btoa, then fetch.
IcuCall(fn, config, icuEventId) ==
    LET call == [fn |-> fn, config |-> config, icuEventId |-> icuEventId]
        guard == IF fn = "syncWorkoutToIcu" THEN singleGuard(config) ELSE bulkGuard(config)
    IN  IF ~guard
        THEN call @@ [pc |-> "resolved", requests |-> <<>>,
                      result |-> IF fn = "syncWorkoutToIcu"
                                 THEN [ok |-> FALSE, eventId |-> <<>>, status |-> 0, error |-> NotConnected]
                                 ELSE [ok |-> FALSE, eventIdsByExternalId |-> <<>>, status |-> 0, error |-> NotConnected]]
        ELSE IF btoaThrows("API_KEY:" \o config.apiKey)
        THEN call @@ [pc |-> "rejected", requests |-> <<>>]
        ELSE call @@ [pc |-> "awaiting",
                      requests |-> <<IF fn = "syncWorkoutToIcu"
                                     THEN singleRequest(config, icuEventId) ELSE bulkRequest>>]

SyncWorkoutToIcu ==
    /\ icu.pc = "ready"
    /\ \E config \in IcuConfigs, icuEventId \in SessionEventIds :
          icu' = IcuCall("syncWorkoutToIcu", config, icuEventId)
    /\ UNCHANGED <<profile, correctionSec, plan, enc, clock, pace, calc, weather, weatherStatus, fetches, week>>

SyncWorkoutsBulkToIcu ==
    /\ icu.pc = "ready"
    /\ \E config \in IcuConfigs : icu' = IcuCall("syncWorkoutsBulkToIcu", config, 0)
    /\ UNCHANGED <<profile, correctionSec, plan, enc, clock, pace, calc, weather, weatherStatus, fetches, week>>

\* fetch settles and the call runs to its return.
SyncWorkoutToIcuSettles ==
    /\ icu.pc = "awaiting" /\ icu.fn = "syncWorkoutToIcu"
    /\ \E reply \in Replies(EventBodies) :
          icu' = [pc |-> "resolved", reply |-> reply,
                  result |-> syncWorkoutToIcuResult(icu.icuEventId, reply)] @@ icu
    /\ UNCHANGED <<profile, correctionSec, plan, enc, clock, pace, calc, weather, weatherStatus, fetches, week>>

SyncWorkoutsBulkToIcuSettles ==
    /\ icu.pc = "awaiting" /\ icu.fn = "syncWorkoutsBulkToIcu"
    /\ \E reply \in Replies(BulkBodies) :
          icu' = [pc |-> "resolved", reply |-> reply,
                  result |-> syncWorkoutsBulkToIcuResult(reply)] @@ icu
    /\ UNCHANGED <<profile, correctionSec, plan, enc, clock, pace, calc, weather, weatherStatus, fetches, week>>

NextIcu ==
    \/ SyncWorkoutToIcu
    \/ SyncWorkoutsBulkToIcu
    \/ SyncWorkoutToIcuSettles
    \/ SyncWorkoutsBulkToIcuSettles

SpecIcu == InitIcu /\ [][NextIcu]_vars

----------------------------------------------------------------------------
(* Properties of the service machine                                       *)

IcuCalled == icu.pc \in {"awaiting", "resolved", "rejected"}
IcuReplied == icu.pc = "resolved" /\ icu.requests # <<>>

BodyIds(body) ==
    IF ~body.readable \/ body.json = <<>> \/ body.json[1].t # "object" \/ body.json[1].id = <<>> THEN {}
    ELSE {n \in 1..99 : body.json[1].id[1] \in {JsNum(n), JsStr(ToString(n))}}

\* C15: syncWorkoutToIcu sends PUT .../events/{icuEventId} for a session
\* that carries an icuEventId and POST .../events otherwise; after a 2xx
\* reply the eventId is the positive id of the body if it has one, else the
\* icuEventId of the session, else null.
C15_UpsertByIdentifier ==
    (IcuCalled /\ icu.fn = "syncWorkoutToIcu" /\ icu.requests # <<>>) =>
        /\ icu.requests[1] =
              IF icu.icuEventId # 0
              THEN [method |-> "PUT", url |-> "https://intervals.icu/api/v1/athlete/" \o icu.config.athleteId \o "/events/" \o ToString(icu.icuEventId)]
              ELSE [method |-> "POST", url |-> "https://intervals.icu/api/v1/athlete/" \o icu.config.athleteId \o "/events"]
        /\ (icu.pc = "resolved" /\ icu.reply.kind = "response" /\ icu.reply.ok) =>
              /\ icu.result.ok
              /\ IF BodyIds(icu.reply.body) # {}
                 THEN icu.result.eventId \in {<<n>> : n \in BodyIds(icu.reply.body)}
                 ELSE IF icu.icuEventId # 0 THEN icu.result.eventId = <<icu.icuEventId>>
                 ELSE icu.result.eventId = <<>>

C15_Witness ==
    /\ IcuReplied /\ icu.fn = "syncWorkoutToIcu" /\ icu.icuEventId = 7
    /\ icu.requests[1].method = "PUT"
    /\ icu.requests[1].url = "https://intervals.icu/api/v1/athlete/i123/events/7"
    /\ icu.reply.kind = "response" /\ icu.reply.ok /\ icu.reply.body = TextBody("OK", <<>>)
    /\ icu.result = [ok |-> TRUE, eventId |-> <<7>>, status |-> 0, error |-> ""]

----------------------------------------------------------------------------
(* Whole-week sync: handleSyncEntireWeekToIcu beside handleGeneratePlan    *)

MaxEntries == 2

\* formatLocalDate(weekStart + i days), i = 0 .. 6, for the week starts used.
weekDates(weekStartDate) ==
    CASE weekStartDate = "2026-11-02" ->
            <<"2026-11-02", "2026-11-03", "2026-11-04", "2026-11-05", "2026-11-06", "2026-11-07", "2026-11-08">>
      [] weekStartDate = "2026-12-28" ->
            <<"2026-12-28", "2026-12-29", "2026-12-30", "2026-12-31", "2027-01-01", "2027-01-02", "2027-01-03">>

WeekStarts == {"2026-11-02", "2026-12-28"}

\* `norskflow:${profile.uid || 'anon'}:${dateStr}:${i}`, i counted from 0.
externalIdOf(uid, dateStr, i) ==
    "norskflow:" \o (IF uid # "" THEN uid ELSE "anon") \o ":" \o dateStr \o ":" \o ToString(i - 1)

\* The first loop of handleSyncEntireWeekToIcu: one item per day that has a
\* session.  No day carries an icuEventId of its own, so nothing is deleted.
workoutItems(days, uid, weekStartDate) ==
    LET Item(i) == [index |-> i, dayLabel |-> dayOrder[i], externalId |-> externalIdOf(uid, weekDates(weekStartDate)[i], i), dateStr |-> weekDates(weekStartDate)[i]]
        F[i \in 0..Len(days)] ==
            IF i = 0 THEN <<>>
            ELSE IF days[i].session = <<>> THEN F[i - 1]
            ELSE Append(F[i - 1], Item(i))
    IN  F[Len(days)]

\* A variant that hands out the ids of the response by position.
reconcileByPosition(days, items, eventIds) ==
    LET F[k \in 0..Len(items)] ==
            IF k = 0 THEN [newDays |-> days, failedDays |-> <<>>, syncedCount |-> 0]
            ELSE IF k <= Len(eventIds)
            THEN [F[k - 1] EXCEPT !.newDays[items[k].index].session[1].icuEventId = eventIds[k][2], !.syncedCount = @ + 1]
            ELSE [F[k - 1] EXCEPT !.failedDays = Append(@, items[k].dayLabel \o ": missing event id from bulk response")]
    IN  F[Len(items)]

\* The second loop: the event id of each item is looked up by its externalId.
reconcileByExternalId(days, items, eventIds) ==
    LET F[k \in 0..Len(items)] ==
            IF k = 0 THEN [newDays |-> days, failedDays |-> <<>>, syncedCount |-> 0]
            ELSE IF MapGet(eventIds, items[k].externalId) # 0
            THEN [F[k - 1] EXCEPT !.newDays[items[k].index].session[1].icuEventId = MapGet(eventIds, items[k].externalId), !.syncedCount = @ + 1]
            ELSE [F[k - 1] EXCEPT !.failedDays = Append(@, items[k].dayLabel \o ": missing event id from bulk response")]
    IN  F[Len(items)]

\* failedDays.join(' | ')
RECURSIVE JoinBar(_)
JoinBar(texts) ==
    IF texts = <<>> THEN ""
    ELSE IF Len(texts) = 1 THEN texts[1]
    ELSE texts[1] \o " | " \o JoinBar(Tail(texts))

\* plan.days.filter((d) => !!d.session).length
workoutDayCount(days) == Cardinality({i \in 1..Len(days) : days[i].session # <<>>})

\* The status and message once the reconciliation is done.
weekSummary(r, dayCount) ==
    IF r.failedDays = <<>>
    THEN [syncStatus |-> "success", syncMessage |-> "Scheduled " \o ToString(r.syncedCount) \o "/" \o ToString(dayCount) \o " workouts to Intervals.icu."]
    ELSE [syncStatus |-> "error", syncMessage |-> "Scheduled " \o ToString(r.syncedCount) \o "/" \o ToString(dayCount) \o " workouts. Failed: " \o JoinBar(r.failedDays)]

\* handleSyncEntireWeekToIcu from the bulk result on.  `run` is the state of
\* the run, `captured` the plan the handler closed over.
afterBulkResult(run, captured, bulkResult) ==
    IF ~bulkResult.ok
    THEN [run EXCEPT !.pc = "settled", !.bulkResult = <<bulkResult>>, !.syncStatus = "error",
                     !.syncMessage = IF bulkResult.error # "" THEN bulkResult.error ELSE "Failed to bulk sync workouts."]
    ELSE LET r == reconcileByExternalId(captured.days, run.workoutItems, bulkResult.eventIdsByExternalId)
         IN  [run EXCEPT !.pc = "settled", !.bulkResult = <<bulkResult>>,
                         !.newDays = r.newDays, !.failedDays = r.failedDays, !.syncedCount = r.syncedCount,
                         !.published = <<[captured EXCEPT !.days = r.newDays]>>,
                         !.startDate = run.weekStartDate,
                         !.syncStatus = weekSummary(r, workoutDayCount(captured.days)).syncStatus,
                         !.syncMessage = weekSummary(r, workoutDayCount(captured.days)).syncMessage,
                         !.timer = TRUE]

\* The run when syncWorkoutsBulkToIcu rejects: the catch block.
afterRejection(run, thrown) ==
    [run EXCEPT !.pc = "settled", !.syncStatus = "error",
                !.syncMessage = caughtMessage(thrown, "Unexpected error while scheduling week.")]

WeekConfigs == [connected : BOOLEAN, athleteId : {"i123"}, apiKey : {"", "k3y", "k?y"}]

\* Tuesday Threshold and Sunday Long Run; Monday is the day the user edits.
WeekSchedule(monday) ==
    [i \in 1..Len(dayOrder) |->
        <<dayOrder[i], IF i = 1 THEN monday ELSE IF i = 2 THEN "Threshold"
                       ELSE IF i = Len(dayOrder) THEN "Long Run" ELSE "Rest">>]

WeekReady(config, isAuthenticated) ==
    [pc |-> "idle", intervalsConfig |-> config, isAuthenticated |-> isAuthenticated,
     startDate |-> "2026-11-02", syncStatus |-> "idle", syncMessage |-> "", timer |-> FALSE,
     weekStartDate |-> "", captured |-> <<>>, workoutItems |-> <<>>, requests |-> <<>>,
     reply |-> <<>>, bulkResult |-> <<>>, newDays |-> <<>>, failedDays |-> <<>>,
     syncedCount |-> 0, published |-> <<>>, regenerated |-> FALSE]

InitWeek ==
    /\ WeatherIdle
    /\ calc = CalcIdle /\ enc = EncIdle /\ clock = ClockIdle /\ pace = PaceIdle
    /\ icu = IcuIdle
    /\ plan = PlanIdle /\ correctionSec = 0
    /\ \E uid \in {"", "u1"} :
          profile = <<[uid |-> uid, raceDistance |-> 5000, raceTime |-> "19:07",
                       raceDistance2 |-> 0, raceTime2 |-> "",
                       ftp |-> 0, weeklyVolume |-> 47000,
                       warmupDist |-> 2000, cooldownDist |-> 1000,
                       schedule |-> WeekSchedule("Rest"), scheduleSport |-> <<>>]>>
    /\ \E config \in WeekConfigs, isAuthenticated \in BOOLEAN :
          week = WeekReady(config, isAuthenticated)

\* setProfile(p => ({ ...p, schedule: { ...p.schedule, [day]: type } })) on Monday.
EditSchedule ==
    /\ \E type \in {"Rest", "Easy Run"} :
          /\ profile[1].schedule[1][2] # type
          /\ profile' = <<[profile[1] EXCEPT !.schedule = WeekSchedule(type)]>>
    /\ UNCHANGED <<correctionSec, plan, enc, clock, pace, calc, weather, weatherStatus, fetches, icu, week>>

\* handleGeneratePlan; `regenerated` records that it ran while the bulk
\* request of the run was in flight.  Every session of this machine is a run,
\* so the direction of the bike roundings is immaterial.
HandleGeneratePlan ==
    /\ profile' = <<normalizeTo5kProfile(profile[1])>>
    /\ \E ties \in {t \in RoundingTies : t["bike"]} :
          plan' = <<generatePlan(normalizeTo5kProfile(profile[1]), correctionSec, ties)>>
    /\ week' = [week EXCEPT !.regenerated = @ \/ week.pc = "awaiting"]
    /\ UNCHANGED <<correctionSec, enc, clock, pace, calc, weather, weatherStatus, fetches, icu>>

\* handleSyncEntireWeekToIcu up to the await of fetch inside
\* syncWorkoutsBulkToIcu.  A call that settles without a request (no API key,
\* or btoa throws) runs to its end in the same step.
HandleSyncEntireWeekToIcu ==
    /\ week.pc = "idle"
    /\ plan # <<>> /\ week.intervalsConfig.connected /\ week.isAuthenticated
    /\ \E weekStartDate \in WeekStarts :
          LET call == IcuCall("syncWorkoutsBulkToIcu", week.intervalsConfig, 0)
              run == [week EXCEPT !.syncStatus = "syncing", !.syncMessage = "",
                                  !.weekStartDate = weekStartDate, !.captured = plan,
                                  !.newDays = plan[1].days,
                                  !.workoutItems = workoutItems(plan[1].days, profile[1].uid, weekStartDate),
                                  !.requests = call.requests]
          IN  week' = CASE call.pc = "awaiting" -> [run EXCEPT !.pc = "awaiting"]
                        [] call.pc = "resolved" -> afterBulkResult(run, plan[1], call.result)
                        [] call.pc = "rejected" -> afterRejection(run, <<"Invalid character">>)
    /\ UNCHANGED <<profile, correctionSec, plan, enc, clock, pace, calc, weather, weatherStatus, fetches, icu>>

\* The entries the bulk responses are combined from: each submitted
\* identifier with an id of its own, and the first of them with a second id.
EntryPool(items) ==
    {Entry(<<JsStr(items[k].externalId)>>, <<JsNum(100 + k)>>) : k \in 1..Len(items)}
    \cup (IF items = <<>> THEN {} ELSE {Entry(<<JsStr(items[1].externalId)>>, <<JsNum(201)>>)})

\* An entry for an identifier that was not submitted.
ForeignEntry == Entry(<<JsStr("norskflow:anon:2026-11-02:9")>>, <<JsNum(300)>>)

ArrayBody(entries) == TextBody("[..]", <<JsArray(entries)>>)

\* The bodies of a 2xx reply: unreadable, empty, a JSON object, every array
\* of at most MaxEntries pool entries, and arrays with an id that is 0 or a
\* text, an element that is null, and a foreign entry.
WeekBodies(items) ==
    {UnreadableBody, TextBody("", <<>>), ObjectBody("{}", <<>>, <<>>, <<>>, <<>>)}
    \cup {ArrayBody(entries) : entries \in UNION {[1..n -> EntryPool(items)] : n \in 0..MaxEntries}}
    \cup (IF items = <<>> THEN {}
          ELSE {ArrayBody(<<Entry(<<JsStr(items[1].externalId)>>, <<JsNum(0)>>)>>),
                ArrayBody(<<JsNull, Entry(<<JsStr(items[1].externalId)>>, <<JsStr("abc")>>)>>),
                ArrayBody(<<Entry(<<JsStr(items[Len(items)].externalId)>>, <<JsNum(100 + Len(items))>>), ForeignEntry>>)})

\* fetch settles; syncWorkoutsBulkToIcu and then the handler run to the end.
WeekSyncSettles ==
    /\ week.pc = "awaiting"
    /\ \E reply \in Replies(WeekBodies(week.workoutItems)) :
          /\ week' = afterBulkResult([week EXCEPT !.reply = <<reply>>], week.captured[1], syncWorkoutsBulkToIcuResult(reply))
          /\ plan' = IF syncWorkoutsBulkToIcuResult(reply).ok THEN week'.published ELSE plan
    /\ UNCHANGED <<profile, correctionSec, enc, clock, pace, calc, weather, weatherStatus, fetches, icu>>

\* The timeout set after a reconciled run: status and message are cleared.
ClearSyncStatus ==
    /\ week.pc # "off" /\ week.timer
    /\ week' = [week EXCEPT !.timer = FALSE, !.syncStatus = "idle", !.syncMessage = ""]
    /\ UNCHANGED <<profile, correctionSec, plan, enc, clock, pace, calc, weather, weatherStatus, fetches, icu>>

NextWeek ==
    \/ EditSchedule
    \/ HandleGeneratePlan
    \/ HandleSyncEntireWeekToIcu
    \/ WeekSyncSettles
    \/ ClearSyncStatus

SpecWeek == InitWeek /\ [][NextWeek]_vars

----------------------------------------------------------------------------
(* Properties of the whole-week sync                                       *)

WeekSubmitted == week.pc \in {"awaiting", "settled"}
\* The run has ended on a 2xx reply to its bulk request.
WeekReplied2xx == week.pc = "settled" /\ week.reply # <<>> /\ week.reply[1].kind = "response" /\ week.reply[1].ok
\* The entries of the response: the elements of the JSON array of its body.
ResponseEntries ==
    IF week.reply[1].body.readable /\ week.reply[1].body.json # <<>> /\ week.reply[1].body.json[1].t = "array"
    THEN week.reply[1].body.json[1].items ELSE <<>>
\* Entry k of the response names the identifier with a positive id.
EntryFor(k, externalId) ==
    /\ ResponseEntries[k].t = "object"
    /\ ResponseEntries[k].external_id = <<JsStr(externalId)>>
    /\ ResponseEntries[k].id # <<>> /\ ResponseEntries[k].id[1].t = "num" /\ ResponseEntries[k].id[1].n > 0
\* The positive ids the response gives to an identifier.
EntryIds(externalId) ==
    {ResponseEntries[k].id[1].n : k \in {j \in 1..Len(ResponseEntries) : EntryFor(j, externalId)}}
\* The id of the last entry that gives the identifier a positive id.
LastEntryId(externalId) ==
    ResponseEntries[CHOOSE k \in 1..Len(ResponseEntries) :
                        /\ EntryFor(k, externalId)
                        /\ \A j \in (k + 1)..Len(ResponseEntries) : ~EntryFor(j, externalId)].id[1].n
IdBefore(w) == week.captured[1].days[w.index].session[1].icuEventId
IdAfter(w) == week.newDays[w.index].session[1].icuEventId
ListedFailed(w) == \E i \in 1..Len(week.failedDays) : week.failedDays[i] = dayOrder[w.index] \o ": missing event id from bulk response"
DistinctExternalIds ==
    \A i, j \in 1..Len(week.workoutItems) :
        i # j => week.workoutItems[i].externalId # week.workoutItems[j].externalId

C19_StaleSyncIgnored ==
    [][(week.pc = "awaiting" /\ week.regenerated /\ week'.pc = "settled") => plan' = plan]_vars

----------------------------------------------------------------------------
(* Clock texts of the pace table                                           *)

\* The fields of a clock text, as numbers.
ClockFields(text) == [i \in 1..Len(Split(text, ":")) |-> DigitsValue(Split(text, ":")[i])]
\* Seconds within 0..59, and minutes within 0..59 under an hour field.
FieldsInRange(fields) ==
    /\ fields[Len(fields)] \in 0..59
    /\ Len(fields) = 3 => fields[2] \in 0..59

\* C30 as stated: each bound of a pace range that getIntervalPaceRange
\* renders with secondsToTime has a seconds field of 00..59, and a minutes
\* field of 00..59 when it has an hour field.
C30_ClockFieldsBelow60 ==
    calc.pc = "interval" =>
        \A i \in 1..Len(calc.outs) :
            \A k \in 1..Len(Split(calc.outs[i].range, "-")) :
                Split(calc.outs[i].range, "-")[k] # "" =>
                    FieldsInRange(ClockFields(Split(calc.outs[i].range, "-")[k]))

----------------------------------------------------------------------------
(* Weather delta machine: getWeatherPaceDeltaSeconds on its own            *)

InitDelta ==
    /\ WeatherIdle /\ SyncIdle
    /\ enc = EncIdle /\ clock = ClockIdle /\ pace = PaceIdle
    /\ profile = <<>> /\ correctionSec = 0 /\ plan = PlanIdle
    /\ calc = [pc |-> "conditions"]

NextDelta == WeatherPaceDelta

SpecDelta == InitDelta /\ [][NextDelta]_vars

----------------------------------------------------------------------------
(* Weather delta                                                           *)

HumidityActive == calc.temperature >= 180 /\ calc.humidity > 600

\* C23: for a positive base pace the delta is a whole number of seconds in
\* -5..20; humidity changes it only at 18 C or more with humidity above 60 %;
\* it is 0 at 5..12 C with wind up to 12 km/h and the humidity term
\* inactive; and it is 0 for a base pace that is not positive.
C23_WeatherDeltaBounds ==
    calc.pc = "weather" =>
        /\ calc.out \in (0 - 5)..20
        /\ ~HumidityActive => calc.out = calc.dry
        /\ (calc.temperature \in 50..120 /\ calc.wind <= 120 /\ ~HumidityActive) => calc.out = 0
        /\ calc.base <= 0 => calc.out = 0

C23_Witness ==
    /\ calc.pc = "weather" /\ calc.base = 229400
    /\ calc.temperature = 600 /\ calc.humidity = 800 /\ calc.wind = 300
    /\ calc.out = 20 /\ calc.dry = 20

----------------------------------------------------------------------------
(* Reconciliation and the Easy sessions                                    *)

\* r is x / n rounded to a multiple of 100 m (one decimal of a km), a
\* halfway value in either direction.
RoundsToTenth(r, x, n) == r % 100 = 0 /\ Abs(r * n - x) <= 50 * n

\* The Easy session `after` follows from the session `before` by
\* max(4, round1(previous + delta / n)), all else unchanged.
EasyAdjusted(before, after, delta, n) ==
    /\ after = [before EXCEPT !.distance = after.distance]
    /\ \E r \in {RoundDiv(before.distance * n + delta, 100 * n) * 100 - k : k \in {0, 100}} :
          /\ RoundsToTenth(r, before.distance * n + delta, n)
          /\ after.distance = Max(4000, r)

\* `days` follow from the days `built` as the reconciliation prescribes:
\* when the sum differs from the target and there are n >= 1 Easy days,
\* every Easy session is adjusted; every other session, and every session
\* otherwise, is as it was built.
ReconciledFrom(built, days, delta, n) ==
    \A i \in 1..Len(days) :
        IF built[i].session # <<>> /\ n >= 1 /\ delta # 0 /\ built[i].session[1].type = "Easy"
        THEN /\ days[i].session # <<>>
             /\ days[i] = [built[i] EXCEPT !.session = days[i].session]
             /\ EasyAdjusted(built[i].session[1], days[i].session[1], delta, n)
        ELSE days[i] = built[i]

\* C21: the reconciliation changes Easy sessions only, each to
\* max(4, round1(previous + delta / n)); Threshold and long-run sessions
\* are as built; every Easy session has at least 4 km and the run Easy
\* sessions of a plan share one distance.
C21_ReconciliationEasyOnly ==
    Generated =>
        /\ \A built \in {dailyPlans(profile[1], correctionSec, planLocals(profile[1], correctionSec))} :
              \A delta \in {Max(0, profile[1].weeklyVolume) - sumDistances(built)} :
                  ReconciledFrom(built, plan[1].days, delta, EasyDayCount)
        /\ \A s \in SessionsOfType("Easy") : s.distance >= 4000
        /\ \A s, t \in SessionsOfType("Easy") : (s.sport = "run" /\ t.sport = "run") => s.distance = t.distance

\* Two run Easy sessions brought down to the floor beside a Threshold
\* session and a long run.
C21_Witness ==
    /\ Generated
    /\ profile[1].weeklyVolume = 30000
    /\ Cardinality({i \in 1..Len(plan[1].days) : plan[1].days[i].session # <<>> /\ plan[1].days[i].session[1].type = "Easy" /\ plan[1].days[i].session[1].sport = "run" /\ plan[1].days[i].session[1].distance = 4000}) >= 1
    /\ SessionsOfType("Threshold") # {}
    /\ SessionsOfType("Long Run") # {}

\* C29 as stated: the duration of every run Easy session of a generated plan
\* is round(distance x easy-pace centre / 60) for the distance it carries.
C29_EasyDurationMatchesDistance ==
    Generated =>
        \A s \in SessionsOfType("Easy") :
            s.sport = "run" =>
                s.duration = paceMinutes(s.distance, getEasyRunPaceRange(profile[1], correctionSec).center, 1, 1)
----------------------------------------------------------------------------
(* Text encoding against the FIT step list                                 *)

IsWarmupStep(st) == ~IsRepeatStep(st) /\ StartsWith(st.wktStepName, "Warm Up")

IsCooldownStep(st) == ~IsRepeatStep(st) /\ StartsWith(st.wktStepName, "Cool Down")

\* The chunk of the text that stands for the i-th interval: the chunks are an
\* optional "Wu" chunk, one chunk for each interval, an optional "Cd" chunk.
IntervalChunk(i) ==
    enc.chunks[i + (IF StartsWith(enc.chunks[1], "Wu ") THEN 1 ELSE 0)]

\* The FIT list has a rest step for the i-th interval: right after its work step.
HasRestStep(i) ==
    LET k == NthWork(FitSteps, i)
    IN  k + 1 <= Len(FitSteps) /\ IsRestStep(FitSteps[k + 1])

\* C28: the text encoding has a "Wu" chunk iff the FIT step list has a warmup
\* step, a "Cd" chunk iff it has a cooldown step, and the chunk of each
\* interval has a recovery part iff the FIT list has a rest step for that
\* interval, whatever the warmup, cooldown and rest texts are.
C28_TextAndFitAgree ==
    Built =>
        /\ (\E i \in 1..Len(enc.chunks) : StartsWith(enc.chunks[i], "Wu "))
              <=> (\E k \in 1..Len(FitSteps) : IsWarmupStep(FitSteps[k]))
        /\ (\E i \in 1..Len(enc.chunks) : StartsWith(enc.chunks[i], "Cd "))
              <=> (\E k \in 1..Len(FitSteps) : IsCooldownStep(FitSteps[k]))
        /\ \A i \in 1..Len(enc.session.intervals) :
              Contains(IntervalChunk(i), "recovery") <=> HasRestStep(i)
----------------------------------------------------------------------------
(* Workout card: src/unnamed/part_011                                      *)

\* parseTimeToSec(timeStr): "M:SS" or "H:MM:SS" in whole seconds, else 0.
parseTimeToSec(timeStr) ==
    LET Total(nums) ==
            IF \E i \in 1..Len(nums) : nums[i] = NaN THEN 0
            ELSE IF Len(nums) = 2 THEN nums[1] * 60 + nums[2]
            ELSE IF Len(nums) = 3 THEN nums[1] * 3600 + nums[2] * 60 + nums[3]
            ELSE 0
        Parsed(parts) == Total([i \in 1..Len(parts) |-> NumberOf(parts[i])])
    IN  IF Trim(timeStr) = "" THEN 0 ELSE Parsed(Split(Trim(timeStr), ":"))

\* parsePaceRangeMidSec(pace), in half seconds: low + high for a range.
parsePaceRangeMidSec(paceText) ==
    LET Mid(low, high) ==
            IF low > 0 /\ high > 0 THEN low + high ELSE IF low > 0 THEN 2 * low ELSE 0
        Parsed(parts) ==
            Mid(parseTimeToSec(parts[1]),
                IF Len(parts) >= 2 THEN parseTimeToSec(parts[2]) ELSE 0)
    IN  IF paceText = "" THEN 0 ELSE Parsed(Split(paceText, "-"))

\* parseRestToSec(rest)
parseRestToSec(rest) ==
    LET Of(v) ==
            IF v # "" /\ Ch(v, Len(v)) = "s" THEN OrZero(NumberOf(RemoveFirst(v, "s")))
            ELSE IF v # "" /\ Ch(v, Len(v)) = "m" THEN OrZero(NumberOf(RemoveFirst(v, "m"))) * 60
            ELSE 0
    IN  IF rest = "" \/ rest = "0" THEN 0 ELSE Of(ToLower(Trim(rest)))

\* clamp(v, min, max)
clamp(v, min, max) == Min(max, Max(min, v))

\* Math.round((workSec + restSec + wuCdSec) / 60) of recalcDerived, exact:
\* work2000 is the work time in 1/2000 s (reps x metres x half seconds),
\* bufferM x centerMs the warmup and cooldown time in microseconds.
thresholdMinutes(work2000, restSec, bufferM, centerMs) ==
    LET micro == (work2000 % 2000) * 500 + ((bufferM * centerMs) % 1000000)
        whole == (work2000 \div 2000) + restSec + ((bufferM * centerMs) \div 1000000)
                    + (micro \div 1000000)
    IN  (whole \div 60)
            + (IF (whole % 60) * 1000000 + (micro % 1000000) >= 30000000 THEN 1 ELSE 0)

\* reps and rep distance of an interval as recalcDerived reads them.
repsOf(int) == Max(1, IF int.count = 0 THEN 1 ELSE int.count)

\* { ...int, pace: paceData.range, description: paceData.effort }
withPaceData(int, paceData) ==
    [int EXCEPT !.pace = paceData.range, !.description = paceData.effort]

\* The Easy branch of recalcDerived.
recalcEasy(session, easyRange) ==
    [session EXCEPT
        !.duration = paceMinutes(session.distance, easyRange.center, 1, 1),
        !.description = "Target Pace: " \o secondsToTime(easyRange.low) \o "-"
                            \o secondsToTime(easyRange.high) \o "/km"]

\* The Threshold branch of recalcDerived, from the repriced intervals on.
recalcThreshold(session, newIntervals, wu, cd, easyCenter) ==
    [session EXCEPT
        !.title = IF newIntervals # <<>>
                  THEN formatThresholdSessionTitle(repsOf(newIntervals[1]),
                                                   Max(0, newIntervals[1].distance))
                  ELSE session.title,
        !.intervals = newIntervals,
        !.distance =
            RoundDiv(wu + cd + SumSeq([i \in 1..Len(newIntervals) |->
                        repsOf(newIntervals[i]) * Max(0, newIntervals[i].distance)]), 100) * 100,
        !.duration =
            thresholdMinutes(
                SumSeq([i \in 1..Len(newIntervals) |->
                    repsOf(newIntervals[i]) * Max(0, newIntervals[i].distance)
                        * parsePaceRangeMidSec(newIntervals[i].pace)]),
                SumSeq([i \in 1..Len(newIntervals) |->
                    parseRestToSec(newIntervals[i].rest) * Max(0, repsOf(newIntervals[i]) - 1)]),
                wu + cd, easyCenter),
        !.warmup = FormatThousandths(wu) \o "km easy pace",
        !.cooldown = FormatThousandths(cd) \o "km easy pace"]

\* recalcDerived(session) of a card with the given profile and correction.
recalcDerived(prof, corr, session) ==
    IF session.type = "Easy" THEN recalcEasy(session, getEasyRunPaceRange(prof, corr))
    ELSE IF session.type = "Threshold"
    THEN recalcThreshold(session,
            [i \in 1..Len(session.intervals) |->
                withPaceData(session.intervals[i],
                             getIntervalPaceRange(prof, session.intervals[i].distance, corr))],
            Max(0, prof.warmupDist), Max(0, prof.cooldownDist),
            getEasyRunPaceRange(prof, corr).center)
    ELSE session

\* updateEasyDistance(distance): the session handed to onUpdateSession.
updateEasyDistance(prof, corr, currentSession, distance) ==
    recalcDerived(prof, corr, [currentSession EXCEPT !.distance = Max(0, distance)])

\* The rep count updateInterval settles on for a rep distance.
clampCount(distance, count) ==
    IF distance <= 1000 THEN clamp(IF count = 0 THEN 10 ELSE count, 8, 20)
    ELSE IF distance = 2000 THEN clamp(IF count = 0 THEN 5 ELSE count, 4, 6)
    ELSE IF distance >= 3000 THEN clamp(IF count = 0 THEN 3 ELSE count, 2, 4)
    ELSE count

\* The interval updateInterval puts at the index; value is a number for
\* 'distance' and 'count' and a text for 'rest'.
updatedInterval(prof, corr, current, field, value) ==
    IF field = "distance"
    THEN withPaceData([current EXCEPT !.distance = value, !.count = clampCount(value, current.count)],
                      getIntervalPaceRange(prof, value, corr))
    ELSE IF field = "count"
    THEN [current EXCEPT !.count = clampCount(current.distance, value)]
    ELSE [current EXCEPT !.rest = value]

\* updateInterval(index, field, value): the session handed to onUpdateSession.
updateInterval(prof, corr, prev, index, field, value) ==
    recalcDerived(prof, corr,
        [prev EXCEPT !.intervals[index] = updatedInterval(prof, corr, prev.intervals[index], field, value)])

\* A variant of selectLongRunVariant that hands over the variant as it is
\* listed, without the list.
selectLongRunVariantBare(currentSession, variantId) ==
    IF currentSession.variants = <<>> THEN <<>>
    ELSE IF \A i \in 1..Len(currentSession.variants) : currentSession.variants[i].id # variantId
    THEN <<>>
    ELSE <<[currentSession.variants[
                CHOOSE i \in 1..Len(currentSession.variants) :
                    /\ currentSession.variants[i].id = variantId
                    /\ \A j \in 1..(i - 1) : currentSession.variants[j].id # variantId]
            EXCEPT !.icuEventId = currentSession.icuEventId]>>

\* selectLongRunVariant(variantId): the session handed to onUpdateSession,
\* <<>> when the handler returns without one.
selectLongRunVariant(currentSession, variantId) ==
    IF currentSession.variants = <<>> THEN <<>>
    ELSE IF \A i \in 1..Len(currentSession.variants) : currentSession.variants[i].id # variantId
    THEN <<>>
    ELSE <<[currentSession.variants[
                CHOOSE i \in 1..Len(currentSession.variants) :
                    /\ currentSession.variants[i].id = variantId
                    /\ \A j \in 1..(i - 1) : currentSession.variants[j].id # variantId]
            EXCEPT !.variants = currentSession.variants,
                   !.icuEventId = currentSession.icuEventId]>>

----------------------------------------------------------------------------
(* Plan board: the handlers of App that edit, reorder and sync the plan    *)
(*                                                                         *)
(* The day objects of a plan are shared by every array that lists them:    *)
(* the handlers copy the array ([...plan.days], arrayMove) and assign to   *)
(* newDays[idx].session in place.  A day record of this machine carries    *)
(* the identity of its object in the field ref (0 for a day without a      *)
(* session, which no handler assigns to); an assignment to a day object    *)
(* reaches every array that holds its ref.                                 *)

\* The calls of the service that may be in flight at once, and the timeouts
\* that may be pending at once.
MaxInFlight == 2
MaxTimers == 1

\* The number of handler runs and continuations a behaviour is followed for.
MaxSteps == 6

BoardProfile ==
    [uid |-> "u1", raceDistance |-> 5000, raceTime |-> "19:07",
     raceDistance2 |-> 0, raceTime2 |-> "", ftp |-> 0, weeklyVolume |-> 47000,
     warmupDist |-> 2000, cooldownDist |-> 1000,
     schedule |-> WeekSchedule("Easy Run"), scheduleSport |-> <<>>]

\* The direction of the halfway roundings of the reconciliation.
BoardTies == {t \in RoundingTies : t["run"] /\ t["bike"]}

BoardConfigs == [connected : BOOLEAN, athleteId : {"i123"}, apiKey : {"k3y"}]

BoardReady(config) ==
    [pc |-> "board", intervalsConfig |-> config, isAuthenticated |-> TRUE,
     startDate |-> "2026-11-02", syncStatus |-> "idle", syncMessage |-> "",
     timers |-> 0, runs |-> <<>>, singles |-> <<>>, last |-> "mount", steps |-> 0]

InitBoard ==
    /\ WeatherIdle
    /\ calc = CalcIdle /\ enc = EncIdle /\ clock = ClockIdle /\ pace = PaceIdle
    /\ icu = IcuIdle
    /\ plan = PlanIdle /\ correctionSec = 0
    /\ profile = <<BoardProfile>>
    /\ \E config \in BoardConfigs : week = BoardReady(config)

\* The refs of the day objects an array lists.
RefsOf(days) == {days[i].ref : i \in 1..Len(days)} \ {0}

\* The refs in use: the plan's and those of every closure in flight.
RefsInUse ==
    (IF plan = <<>> THEN {} ELSE RefsOf(plan[1].days))
    \cup UNION {RefsOf(week.runs[k].days) : k \in 1..Len(week.runs)}
    \cup UNION {RefsOf(week.singles[k].days) : k \in 1..Len(week.singles)}

\* The least ref that is not in `used`.
FreshRef(used) == CHOOSE r \in 1..(Cardinality(used) + 1) : r \notin used /\ \A q \in 1..(r - 1) : q \in used

\* New day objects for the days at the positions in `at`.
RECURSIVE WithFreshRefs(_, _, _)
WithFreshRefs(days, at, used) ==
    IF at = {} THEN days
    ELSE LET i == CHOOSE j \in at : \A k \in at : j <= k
         IN  WithFreshRefs([days EXCEPT ![i].ref = FreshRef(used)], at \ {i},
                           used \cup {FreshRef(used)})

\* newDays[idx].session = session, as every array that lists the object sees it.
assignSession(days, ref, session) ==
    [i \in 1..Len(days) |->
        IF days[i].ref = ref THEN [days[i] EXCEPT !.session = <<session>>] ELSE days[i]]

assignInClosures(closures, ref, session) ==
    [k \in 1..Len(closures) |-> [closures[k] EXCEPT !.days = assignSession(@, ref, session)]]

\* The sequence without its k-th element.
Without(s, k) == SubSeq(s, 1, k - 1) \o SubSeq(s, k + 1, Len(s))

\* arrayMove(array, from, to)
arrayMove(array, from, to) ==
    LET rest == Without(array, from)
    IN  SubSeq(rest, 1, to - 1) \o <<array[from]>> \o SubSeq(rest, to, Len(rest))

InFlight == Len(week.runs) + Len(week.singles)

\* handleGeneratePlan: every day of the new plan is a new object.
BoardGeneratePlan ==
    /\ week.pc = "board" /\ week.steps < MaxSteps
    /\ profile' = <<normalizeTo5kProfile(profile[1])>>
    /\ \E ties \in BoardTies :
          \E built \in {generatePlan(normalizeTo5kProfile(profile[1]), correctionSec, ties)} :
             plan' = <<[built EXCEPT !.days =
                    WithFreshRefs([i \in 1..Len(built.days) |-> built.days[i] @@ [ref |-> 0]],
                                  {i \in 1..Len(built.days) : built.days[i].session # <<>>},
                                  RefsInUse)]>>
    /\ week' = [week EXCEPT !.steps = @ + 1, !.last = "handleGeneratePlan"]
    /\ UNCHANGED <<correctionSec, enc, clock, pace, calc, weather, weatherStatus, fetches, icu>>

\* existingEventId ? { ...updated, icuEventId: existingEventId } : updated
mergeEventId(existing, updated) ==
    IF existing # 0 THEN [updated EXCEPT !.icuEventId = existing] ELSE updated

\* onUpdateSession(updated) of the day at position idx.
OnUpdateSession(idx, updated, handler) ==
    LET day == plan[1].days[idx]
        session == mergeEventId(day.session[1].icuEventId, updated)
    IN  /\ plan' = <<[plan[1] EXCEPT !.days = assignSession(@, day.ref, session)]>>
        /\ week' = [week EXCEPT !.steps = @ + 1, !.runs = assignInClosures(@, day.ref, session),
                                !.singles = assignInClosures(@, day.ref, session),
                                !.last = handler]

\* The card's session: the session of the day it shows.
CardSession(idx) == plan[1].days[idx].session[1]

HasCard(idx) == plan # <<>> /\ plan[1].days[idx].session # <<>>

EasyDistances == {5000}

\* The easy-distance input of an Easy card.
UpdateEasyDistance ==
    /\ week.pc = "board" /\ week.steps < MaxSteps
    /\ \E idx \in 1..Len(dayOrder), distance \in EasyDistances :
          /\ HasCard(idx) /\ CardSession(idx).type = "Easy"
          /\ OnUpdateSession(idx, updateEasyDistance(profile[1], correctionSec, CardSession(idx), distance), "updateEasyDistance")
    /\ UNCHANGED <<profile, correctionSec, enc, clock, pace, calc, weather, weatherStatus, fetches, icu>>

IntervalEdits == {<<"distance", 1000>>}

\* The distance, reps and rest inputs of a Threshold card.
UpdateInterval ==
    /\ week.pc = "board" /\ week.steps < MaxSteps
    /\ \E idx \in 1..Len(dayOrder), edit \in IntervalEdits :
          /\ HasCard(idx) /\ CardSession(idx).type = "Threshold"
          /\ CardSession(idx).intervals # <<>>
          /\ OnUpdateSession(idx, updateInterval(profile[1], correctionSec, CardSession(idx), 1, edit[1], edit[2]), "updateInterval")
    /\ UNCHANGED <<profile, correctionSec, enc, clock, pace, calc, weather, weatherStatus, fetches, icu>>

VariantIds == {"sunday-easy", "sunday-blocks", "sunday-tempo"}

\* The long-run select of a Long Run card.
SelectLongRunVariant ==
    /\ week.pc = "board" /\ week.steps < MaxSteps
    /\ \E idx \in 1..Len(dayOrder), variantId \in VariantIds :
          /\ HasCard(idx) /\ CardSession(idx).type = "Long Run"
          /\ CardSession(idx).variants # <<>>
          /\ selectLongRunVariant(CardSession(idx), variantId) # <<>>
          /\ OnUpdateSession(idx, selectLongRunVariant(CardSession(idx), variantId)[1], "selectLongRunVariant")
    /\ UNCHANGED <<profile, correctionSec, enc, clock, pace, calc, weather, weatherStatus, fetches, icu>>

\* The workouts handed to syncWorkoutsBulkToIcu.
submittedWorkouts(days, items) ==
    [k \in 1..Len(items) |->
        [externalId |-> items[k].externalId, date |-> items[k].dateStr,
         day |-> days[items[k].index].day, session |-> days[items[k].index].session[1]]]

\* handleSyncEntireWeekToIcu(weekStartDate) of the render whose plan is
\* `closed`, up to the await of fetch: the run in flight.  The configuration
\* of the board has an API key, so a request is always issued.
weekRun(closed, weekStartDate, trigger, order) ==
    [weekStartDate |-> weekStartDate, totalDistance |-> closed.totalDistance,
     days |-> closed.days, dayCount |-> workoutDayCount(closed.days),
     workoutItems |-> workoutItems(closed.days, profile[1].uid, weekStartDate),
     submitted |-> submittedWorkouts(closed.days, workoutItems(closed.days, profile[1].uid, weekStartDate)),
     trigger |-> trigger, order |-> order]

\* The order of the days of an array, by name.
DayNames(days) == [i \in 1..Len(days) |-> days[i].day]

\* The Schedule Week dialog, opened by a button that is disabled while
\* syncStatus is 'syncing'.
ScheduleWeek ==
    /\ week.pc = "board" /\ week.steps < MaxSteps
    /\ plan # <<>> /\ week.intervalsConfig.connected /\ week.isAuthenticated
    /\ week.syncStatus # "syncing"
    /\ InFlight < MaxInFlight
    /\ \E weekStartDate \in {"2026-11-02"} :
          week' = [week EXCEPT !.steps = @ + 1, !.syncStatus = "syncing", !.syncMessage = "",
                               !.runs = Append(@, weekRun(plan[1], weekStartDate, "button", DayNames(plan[1].days))),
                               !.last = "handleSyncEntireWeekToIcu"]
    /\ UNCHANGED <<profile, correctionSec, plan, enc, clock, pace, calc, weather, weatherStatus, fetches, icu>>

DragMoves == {<<1, 2>>, <<2, 1>>}

\* `a || b` on two event ids.
movedSynced(reordered, oldIndex, newIndex) ==
    (reordered[oldIndex].session # <<>> /\ reordered[oldIndex].session[1].icuEventId # 0)
    \/ (reordered[newIndex].session # <<>> /\ reordered[newIndex].session[1].icuEventId # 0)

\* handleDragEnd for a card dropped on another: the days are reordered and,
\* when a moved day is synced, handleSyncEntireWeekToIcu(startDate) of the
\* same render is called.
HandleDragEnd ==
    /\ week.pc = "board" /\ week.steps < MaxSteps
    /\ plan # <<>>
    /\ \E move \in DragMoves :
          LET reordered == arrayMove(plan[1].days, move[1], move[2])
              resync == week.intervalsConfig.connected /\ movedSynced(reordered, move[1], move[2])
          IN  /\ plan' = <<[plan[1] EXCEPT !.days = reordered]>>
              /\ ~(resync /\ week.isAuthenticated) =>
                    week' = [week EXCEPT !.steps = @ + 1, !.last = "handleDragEnd"]
              /\ (resync /\ week.isAuthenticated) =>
                    /\ InFlight < MaxInFlight
                    /\ week' = [week EXCEPT !.steps = @ + 1, !.syncStatus = "syncing", !.syncMessage = "",
                                            !.runs = Append(@, weekRun(plan[1], week.startDate, "drag", DayNames(reordered))),
                                            !.last = "handleDragEnd"]
    /\ UNCHANGED <<profile, correctionSec, enc, clock, pace, calc, weather, weatherStatus, fetches, icu>>

\* The replies to a bulk request: an error, every submitted
\* workout with an id of its own, and the same without the first workout.
BoardBulkReplies(items) ==
    {[kind |-> "response", ok |-> FALSE, status |-> 500, body |-> TextBody("Unauthorized", <<>>)],
     [kind |-> "response", ok |-> TRUE, status |-> 200,
      body |-> ArrayBody([k \in 1..Len(items) |-> Entry(<<JsStr(items[k].externalId)>>, <<JsNum(100 + k)>>)])],
     [kind |-> "response", ok |-> TRUE, status |-> 200,
      body |-> ArrayBody([k \in 1..(Len(items) - 1) |-> Entry(<<JsStr(items[k + 1].externalId)>>, <<JsNum(101 + k)>>)])]}

\* The positions of the days the second loop replaces by a copy.
replacedDays(items, eventIds) ==
    {items[k].index : k \in {j \in 1..Len(items) : MapGet(eventIds, items[j].externalId) # 0}}

\* The bulk request of a run settles and the run goes to its end.
BoardWeekSettles ==
    /\ week.pc = "board" /\ week.steps < MaxSteps
    /\ \E k \in 1..Len(week.runs) :
          \E reply \in BoardBulkReplies(week.runs[k].workoutItems) :
             LET run == week.runs[k]
                 bulkResult == syncWorkoutsBulkToIcuResult(reply)
                 r == reconcileByExternalId(run.days, run.workoutItems, bulkResult.eventIdsByExternalId)
                 newDays == WithFreshRefs(r.newDays, replacedDays(run.workoutItems, bulkResult.eventIdsByExternalId), RefsInUse)
             IN  IF ~bulkResult.ok
                 THEN /\ week' = [week EXCEPT !.steps = @ + 1, !.runs = Without(@, k), !.syncStatus = "error",
                                              !.syncMessage = IF bulkResult.error # "" THEN bulkResult.error ELSE "Failed to bulk sync workouts.",
                                              !.last = "bulk settles"]
                      /\ plan' = plan
                 ELSE /\ week.timers < MaxTimers
                      /\ plan' = <<[totalDistance |-> run.totalDistance, days |-> newDays]>>
                      /\ week' = [week EXCEPT !.steps = @ + 1, !.runs = Without(@, k), !.startDate = run.weekStartDate,
                                              !.syncStatus = weekSummary(r, run.dayCount).syncStatus,
                                              !.syncMessage = weekSummary(r, run.dayCount).syncMessage,
                                              !.timers = @ + 1, !.last = "bulk settles"]
    /\ UNCHANGED <<profile, correctionSec, enc, clock, pace, calc, weather, weatherStatus, fetches, icu>>

\* onSyncSession of the card at position idx, up to the await of fetch.
OnSyncSession ==
    /\ week.pc = "board" /\ week.steps < MaxSteps
    /\ plan # <<>> /\ week.intervalsConfig.connected
    /\ InFlight < MaxInFlight
    /\ \E idx \in 1..Len(dayOrder) :
          /\ HasCard(idx)
          /\ week' = [week EXCEPT !.steps = @ + 1, !.singles = Append(@,
                            [idx |-> idx, totalDistance |-> plan[1].totalDistance, days |-> plan[1].days,
                             icuEventId |-> CardSession(idx).icuEventId,
                             request |-> singleRequest(week.intervalsConfig, CardSession(idx).icuEventId)]),
                                !.last = "onSyncSession"]
    /\ UNCHANGED <<profile, correctionSec, plan, enc, clock, pace, calc, weather, weatherStatus, fetches, icu>>

BoardEventReplies ==
    {[kind |-> "throw", thrown |-> <<"Failed to fetch">>],
     [kind |-> "response", ok |-> TRUE, status |-> 200, body |-> ObjectBody("{\"id\":42}", <<>>, <<>>, <<>>, <<JsNum(42)>>)],
     [kind |-> "response", ok |-> TRUE, status |-> 200, body |-> ObjectBody("{}", <<>>, <<>>, <<>>, <<>>)]}

\* The request of a card settles and onSyncSession goes to its end.
BoardSessionSettles ==
    /\ week.pc = "board" /\ week.steps < MaxSteps
    /\ \E k \in 1..Len(week.singles) :
          \E reply \in BoardEventReplies :
             LET single == week.singles[k]
                 result == syncWorkoutToIcuResult(single.icuEventId, reply)
                 day == single.days[single.idx]
                 session == [day.session[1] EXCEPT !.icuEventId = result.eventId[1]]
                 label == dayOrder[single.idx]
             IN  IF result.ok /\ result.eventId # <<>> /\ result.eventId[1] # 0
                 THEN /\ week.timers < MaxTimers
                      /\ plan' = <<[totalDistance |-> single.totalDistance,
                                    days |-> assignSession(single.days, day.ref, session)]>>
                      /\ week' = [week EXCEPT !.steps = @ + 1, !.runs = assignInClosures(@, day.ref, session),
                                              !.singles = assignInClosures(Without(@, k), day.ref, session),
                                              !.syncStatus = "success",
                                              !.syncMessage = label \o " synced to Intervals.icu.",
                                              !.timers = @ + 1, !.last = "single settles"]
                 ELSE /\ plan' = plan
                      /\ week' = [week EXCEPT !.steps = @ + 1, !.singles = Without(@, k), !.syncStatus = "error",
                                              !.syncMessage = "Failed to sync " \o label \o ": "
                                                    \o (IF result.error # "" THEN result.error ELSE "unknown error"),
                                              !.last = "single settles"]
    /\ UNCHANGED <<profile, correctionSec, enc, clock, pace, calc, weather, weatherStatus, fetches, icu>>

\* A timeout set after a sync fires: status and message are cleared.
BoardTimerFires ==
    /\ week.pc = "board" /\ week.steps < MaxSteps
    /\ week.timers > 0
    /\ week' = [week EXCEPT !.steps = @ + 1, !.timers = @ - 1, !.syncStatus = "idle", !.syncMessage = "", !.last = "setTimeout"]
    /\ UNCHANGED <<profile, correctionSec, plan, enc, clock, pace, calc, weather, weatherStatus, fetches, icu>>

NextBoard ==
    \/ BoardGeneratePlan
    \/ UpdateEasyDistance
    \/ UpdateInterval
    \/ SelectLongRunVariant
    \/ HandleDragEnd
    \/ ScheduleWeek
    \/ BoardWeekSettles
    \/ OnSyncSession
    \/ BoardSessionSettles
    \/ BoardTimerFires

SpecBoard == InitBoard /\ [][NextBoard]_vars
----------------------------------------------------------------------------
(* Properties of the plan board                                            *)

OnBoard == week.pc = "board" /\ plan # <<>>

\* The positions of the plan whose session is a long run on foot.
LongRunDays(days) ==
    {i \in 1..Len(days) : days[i].session # <<>> /\ days[i].session[1].type = "Long Run"
                            /\ days[i].session[1].sport = "run"}

\* The content fields of a session: all but the variant list and the event id.
ContentOf(session) == [session EXCEPT !.variants = <<>>, !.icuEventId = 0]

VariantIdsOf(session) == [i \in 1..Len(session.variants) |-> session.variants[i].id]

\* The variant list is the three variants of the day, and the session is
\* the one entry that has its id.
OneActiveVariant(day) ==
    /\ VariantIdsOf(day.session[1])
          = <<ToLower(day.day) \o "-easy", ToLower(day.day) \o "-prog", ToLower(day.day) \o "-blocks">>
    /\ Cardinality({i \in 1..3 : day.session[1].variants[i].id = day.session[1].id}) = 1
    /\ \A i \in 1..3 :
          day.session[1].variants[i].id = day.session[1].id
             => ContentOf(day.session[1]) = ContentOf(day.session[1].variants[i])

\* C22: the long-run session of a generated plan equals the first of its
\* three variants "<day>-easy", "<day>-prog", "<day>-blocks"; in every later
\* state the session has the id of exactly one entry of its variant list and
\* the content fields of that entry; a variant selection leaves the variant
\* list and the icuEventId of the session as they were.
C22_OneActiveVariant ==
    /\ [](OnBoard => \A i \in LongRunDays(plan[1].days) : OneActiveVariant(plan[1].days[i]))
    /\ [][/\ (week'.pc = "board" /\ week'.last = "handleGeneratePlan" /\ week'.steps # week.steps)
                => \A i \in LongRunDays(plan'[1].days) :
                      /\ ContentOf(plan'[1].days[i].session[1]) = ContentOf(plan'[1].days[i].session[1].variants[1])
                      /\ plan'[1].days[i].session[1].icuEventId = 0
          /\ (week'.pc = "board" /\ week'.last = "selectLongRunVariant" /\ week'.steps # week.steps)
                => \A i \in LongRunDays(plan[1].days) :
                      /\ plan'[1].days[i].session[1].variants = plan[1].days[i].session[1].variants
                      /\ plan'[1].days[i].session[1].icuEventId = plan[1].days[i].session[1].icuEventId]_vars

\* A synced long run shown as its third variant after a selection.
C22_Witness ==
    /\ OnBoard /\ week.last = "selectLongRunVariant"
    /\ \E i \in LongRunDays(plan[1].days) :
          /\ plan[1].days[i].session[1].id = "sunday-blocks"
          /\ plan[1].days[i].session[1].title = "3x5km MP Long Run"
          /\ plan[1].days[i].session[1].icuEventId # 0

\* C24: on the board, whatever handlers have run (generation, the edits of
\* the cards, reorders, syncs), plan.totalDistance is the sum of the
\* distances of the sessions of the plan, rounded to one decimal.
C24_TotalDistanceConsistent ==
    OnBoard => plan[1].totalDistance = RoundDiv(sumDistances(plan[1].days), 100) * 100

\* The run that handleDragEnd has just started, if it started one.
StartedByDrag(before, after) ==
    IF after.last = "handleDragEnd" /\ after.steps # before.steps /\ Len(after.runs) = Len(before.runs) + 1
    THEN <<after.runs[Len(after.runs)]>>
    ELSE <<>>

\* The drag-triggered runs that the step from `before` to `after` has taken
\* to a successful end.
SettledDragRuns(before, after) ==
    IF after.last = "bulk settles" /\ after.steps # before.steps /\ after.syncStatus # "error"
    THEN {before.runs[k] : k \in {j \in 1..Len(before.runs) :
                                     before.runs[j].trigger = "drag" /\ after.runs = Without(before.runs, j)}}
    ELSE {}

\* C25: the whole-week resync that a drag reorder starts submits the
\* workouts of the reordered plan, each on the date of its new position, and
\* when that resync ends successfully on a plan that still has the reordered
\* day order, the plan keeps that order.
C25_ReorderSurvivesResync ==
    [][/\ \A k \in 1..Len(StartedByDrag(week, week')) :
             StartedByDrag(week, week')[k].submitted
                = submittedWorkouts(plan'[1].days, workoutItems(plan'[1].days, profile[1].uid, week.startDate))
       /\ \A run \in SettledDragRuns(week, week') :
             DayNames(plan[1].days) = run.order => DayNames(plan'[1].days) = run.order]_vars

\* C26: at most one handleSyncEntireWeekToIcu run awaits the service, and
\* syncStatus is 'syncing' while one does.
C26_WeekSyncsExclusive ==
    week.pc = "board" =>
        /\ Len(week.runs) <= 1
        /\ (Len(week.runs) = 1 => week.syncStatus = "syncing")

\* The event id of the session of the day of that name, 0 without one.
EventIdOf(days, name) ==
    LET at == {i \in 1..Len(days) : days[i].day = name /\ days[i].session # <<>>}
    IN  IF at = {} THEN 0 ELSE days[CHOOSE i \in at : TRUE].session[1].icuEventId

UserEdits == {"updateEasyDistance", "updateInterval", "selectLongRunVariant", "handleDragEnd"}

\* A step of one of the handlers named, on a board with a plan.
StepOf(before, after, handlers) ==
    before.pc = "board" /\ after.pc = "board" /\ after.steps # before.steps /\ after.last \in handlers

\* The session of the day of that name has an event id in `before` and the
\* same one in `after`.
KeepsEventId(before, after, name) ==
    EventIdOf(before, name) # 0 => EventIdOf(after, name) = EventIdOf(before, name)

\* An edit of a card and a day reorder leave the icuEventId of every synced
\* session on it.
EditsKeepEventId ==
    [][(plan # <<>> /\ StepOf(week, week', UserEdits))
          => \A i \in 1..Len(plan[1].days) :
                KeepsEventId(plan[1].days, plan'[1].days, plan[1].days[i].day)]_vars

\* The request of a single-session sync of a session with an icuEventId is
\* a PUT to the event of that id.
SyncedCardIsUpdated ==
    [](week.pc = "board" =>
         \A k \in 1..Len(week.singles) :
            week.singles[k].icuEventId # 0 =>
               /\ week.singles[k].request.method = "PUT"
               /\ week.singles[k].request.url
                     = "https://intervals.icu/api/v1/athlete/i123/events/" \o ToString(week.singles[k].icuEventId))

\* A session that has an icuEventId is without one after a step only when
\* the step is handleGeneratePlan.
OnlyGenerationDropsEventId ==
    [][(plan # <<>> /\ StepOf(week, week', {week'.last}))
          => \A i \in 1..Len(plan[1].days) :
                (EventIdOf(plan[1].days, plan[1].days[i].day) # 0
                   /\ EventIdOf(plan'[1].days, plan[1].days[i].day) = 0)
                      => week'.last = "handleGeneratePlan"]_vars

\* C27: once a session has an icuEventId, the edits of its card (distance,
\* interval, long-run variant) and the day reorders keep it, a later
\* single-session sync of it is a PUT to that event, and nothing but
\* regenerating the plan leaves the session without an icuEventId.
C27_SyncedSessionKeepsId ==
    /\ EditsKeepEventId
    /\ SyncedCardIsUpdated
    /\ OnlyGenerationDropsEventId

====
